---- MODULE Spec2Model ----
(***************************************************************************)
(* Fee router: 24h-gated, paginated distribution of claimed quote fees     *)
(* between investors (weighted by still-locked amounts) and the creator.   *)
(* The model follows the distribute_fees instruction and the               *)
(* DistributionProgress ledger it mutates.                                 *)
(***************************************************************************)
EXTENDS Integers, Sequences, FiniteSets, TLC

\* ---------------------------------------------------------------------------
\* Program constants (constants.rs)
\* ---------------------------------------------------------------------------
TWENTY_FOUR_HOURS == 86400
MAX_BASIS_POINTS == 10000
WEIGHT_PRECISION == 1000000
MAX_PAGE_SIZE == 50

\* ---------------------------------------------------------------------------
\* Bounds of the model
\* ---------------------------------------------------------------------------
\* timestamps range over day boundaries 0..MaxDays (and the second before each)
MaxDays == 2
\* number of stream accounts a caller passes in one invocation
MaxStreams == 2
\* width of the u64 fields in the model: largest representable amount
U64_MAX == 2047
\* width of the u32 cursor in the model: largest representable cursor
U32_MAX == 127
\* width of the u128 intermediates in the model: the largest product held
U128_MAX == 2147483646
LedgerAmount == 1000
\* number of investors passed to one call of calculate_batch_payout
MaxInvestors == 2

\* Option<T>: None is the empty set, Some(x) the singleton {x}
None == {}
Some(x) == {x}
IsSome(o) == o # {}
Unwrap(o) == CHOOSE x \in o : TRUE

Min(a, b) == IF a <= b THEN a ELSE b

Ok(fields) == [ok |-> TRUE, err |-> "none"] @@ fields
Err(code) == [ok |-> FALSE, err |-> code]

\* u64::saturating_sub / saturating_add
saturating_sub(a, b) == IF a >= b THEN a - b ELSE 0
saturating_add(a, b) == Min(a + b, U64_MAX)

\* ---------------------------------------------------------------------------
\* DistributionProgress (state/distribution_progress.rs)
\* ---------------------------------------------------------------------------
\* DistributionProgress::initialize: the ledger right after creation
initialize ==
    [last_distribution_ts |-> 0,
     current_day_distributed |-> 0,
     carry_over_dust |-> 0,
     pagination_cursor |-> 0,
     day_complete |-> FALSE]

can_start_new_day_always(p, current_timestamp) == TRUE

can_start_new_day(p, current_timestamp) ==
    current_timestamp >= p.last_distribution_ts + TWENTY_FOUR_HOURS

is_same_day_strict(p, current_timestamp) ==
    p.last_distribution_ts # 0 /\ current_timestamp - p.last_distribution_ts > 0
        /\ current_timestamp - p.last_distribution_ts < TWENTY_FOUR_HOURS

\* the same day measured without the sign of the difference
is_same_day_unsigned(p, current_timestamp) ==
    IF p.last_distribution_ts = 0 THEN FALSE
    ELSE current_timestamp - p.last_distribution_ts < TWENTY_FOUR_HOURS

is_same_day(p, current_timestamp) ==
    IF p.last_distribution_ts = 0 THEN FALSE
    ELSE LET time_diff == current_timestamp - p.last_distribution_ts
         IN  time_diff >= 0 /\ time_diff < TWENTY_FOUR_HOURS

can_continue_same_day_complete(p, current_timestamp) == is_same_day(p, current_timestamp)

can_continue_same_day(p, current_timestamp) ==
    is_same_day(p, current_timestamp) /\ ~p.day_complete

\* Result<DistributionTimingState>
validate_distribution_timing(p, current_timestamp) ==
    IF p.last_distribution_ts = 0 THEN Ok([state |-> "NewDay"])
    ELSE IF can_start_new_day(p, current_timestamp) THEN Ok([state |-> "NewDay"])
    ELSE IF can_continue_same_day(p, current_timestamp) THEN Ok([state |-> "ContinueSameDay"])
    ELSE IF is_same_day(p, current_timestamp) /\ p.day_complete THEN Err("DayAlreadyComplete")
    ELSE Err("CooldownNotElapsed")

\* a reset that also clears the carried dust
start_new_day_clear_dust(p, current_timestamp) ==
    IF ~can_start_new_day(p, current_timestamp) THEN Err("CooldownNotElapsed")
    ELSE Ok([p |-> [initialize EXCEPT !.last_distribution_ts = current_timestamp]])

\* Result<()>, with the ledger after the call in .p
start_new_day(p, current_timestamp) ==
    IF ~can_start_new_day(p, current_timestamp) THEN Err("CooldownNotElapsed")
    ELSE Ok([p |-> [p EXCEPT !.last_distribution_ts = current_timestamp,
                             !.current_day_distributed = 0,
                             !.pagination_cursor = 0,
                             !.day_complete = FALSE]])

add_distributed(p, amount) ==
    IF p.current_day_distributed + amount > U64_MAX THEN Err("ArithmeticOverflow")
    ELSE Ok([p |-> [p EXCEPT !.current_day_distributed = @ + amount]])

update_cursor_unchecked(p, new_cursor) ==
    Ok([p |-> [p EXCEPT !.pagination_cursor = new_cursor]])

update_cursor(p, new_cursor) ==
    IF ~(new_cursor >= p.pagination_cursor) THEN Err("InvalidPaginationCursor")
    ELSE Ok([p |-> [p EXCEPT !.pagination_cursor = new_cursor]])

advance_cursor_one(p, page_size) ==
    Ok([p |-> [p EXCEPT !.pagination_cursor = @ + 1]])

advance_cursor(p, page_size) ==
    IF p.pagination_cursor + page_size > U32_MAX THEN Err("ArithmeticOverflow")
    ELSE Ok([p |-> [p EXCEPT !.pagination_cursor = @ + page_size]])

validate_cursor_for_retry_never(p, requested_cursor) ==
    IF requested_cursor <= p.pagination_cursor THEN Ok([is_retry |-> FALSE])
    ELSE Err("InvalidPaginationCursor")

\* Result<bool>
validate_cursor_for_retry(p, requested_cursor) ==
    IF requested_cursor < p.pagination_cursor THEN Ok([is_retry |-> TRUE])
    ELSE IF requested_cursor = p.pagination_cursor THEN Ok([is_retry |-> FALSE])
    ELSE Err("InvalidPaginationCursor")

reset_cursor_to(p, cursor_position) ==
    IF ~(cursor_position <= p.pagination_cursor) THEN Err("InvalidPaginationCursor")
    ELSE Ok([p |-> [p EXCEPT !.pagination_cursor = cursor_position]])

complete_day(p) == [p EXCEPT !.day_complete = TRUE]

add_dust(p, dust_amount) ==
    IF p.carry_over_dust + dust_amount > U64_MAX THEN Err("ArithmeticOverflow")
    ELSE Ok([p |-> [p EXCEPT !.carry_over_dust = @ + dust_amount]])

consume_dust(p, amount) ==
    LET consumed == Min(p.carry_over_dust, amount)
    IN  Ok([p |-> [p EXCEPT !.carry_over_dust = @ - consumed], consumed |-> consumed])

reset_for_continuation(p) ==
    [p EXCEPT !.pagination_cursor = 0, !.day_complete = FALSE]

\* Result<DistributionTimingState>, with the ledger after the call in .p
prepare_for_distribution(p, current_timestamp) ==
    LET timing == validate_distribution_timing(p, current_timestamp)
    IN  IF ~timing.ok THEN timing
        ELSE IF timing.state = "NewDay"
             THEN LET s == start_new_day(p, current_timestamp)
                  IN  IF ~s.ok THEN s ELSE Ok([state |-> "NewDay", p |-> s.p])
             ELSE Ok([state |-> "ContinueSameDay", p |-> p])

\* page_start + page_size is an unchecked u32 addition, evaluated first: beyond
\* u32 it panics in a build with overflow checks and wraps in one without
mark_page_processed(p, page_start, page_size, overflow_checks) ==
    IF page_start + page_size > U32_MAX /\ overflow_checks THEN Err("Panic")
    ELSE
    LET expected_cursor == (page_start + page_size) % (U32_MAX + 1)
    IN  IF ~(page_start = p.pagination_cursor) THEN Err("InvalidPaginationCursor")
        ELSE Ok([p |-> [p EXCEPT !.pagination_cursor = expected_cursor]])

\* ---------------------------------------------------------------------------
\* PolicyConfig (state/policy_config.rs)
\* ---------------------------------------------------------------------------
PolicyConfig_validate(policy) ==
    IF ~(policy.investor_fee_share_bps <= MAX_BASIS_POINTS) THEN Err("InvalidFeeShareBasisPoints")
    ELSE IF ~(policy.min_payout_lamports > 0) THEN Err("InvalidMinPayoutThreshold")
    ELSE IF ~(policy.y0_total_allocation > 0) THEN Err("InvalidTotalAllocation")
    ELSE IF IsSome(policy.daily_cap_lamports) /\ ~(Unwrap(policy.daily_cap_lamports) > 0)
         THEN Err("InvalidDailyCap")
    ELSE Ok([validated |-> TRUE])

\* the account as the init constraint creates it: zeroed
PolicyConfig_default ==
    [investor_fee_share_bps |-> 0, daily_cap_lamports |-> None,
     min_payout_lamports |-> 0, y0_total_allocation |-> 0]

\* PolicyConfig::initialize assigns the fields and validates afterwards:
\* Result<()>, with the account after the call in .self also when it fails.
\* The keys it stores as passed (vault, mints, wallet, bump) are left out.
PolicyConfig_initialize(self, investor_fee_share_bps, daily_cap_lamports, min_payout_lamports, y0_total_allocation) ==
    LET assigned == [self EXCEPT !.investor_fee_share_bps = investor_fee_share_bps,
                                 !.daily_cap_lamports = daily_cap_lamports,
                                 !.min_payout_lamports = min_payout_lamports,
                                 !.y0_total_allocation = y0_total_allocation]
        validated == PolicyConfig_validate(assigned)
    IN  [ok |-> validated.ok, err |-> validated.err, self |-> assigned]

\* ---------------------------------------------------------------------------
\* initialize_honorary_position (instructions/initialize_honorary_position.rs)
\* ---------------------------------------------------------------------------
validate_initialization_params(params) ==
    IF ~(params.investor_fee_share_bps <= MAX_BASIS_POINTS)
    THEN Err("InvalidFeeShareBasisPoints")
    ELSE IF ~(params.min_payout_lamports > 0) THEN Err("InvalidMinPayoutThreshold")
    ELSE IF ~(params.y0_total_allocation > 0) THEN Err("InvalidTotalAllocation")
    ELSE IF IsSome(params.daily_cap_lamports) /\ ~(Unwrap(params.daily_cap_lamports) > 0)
         THEN Err("InvalidDailyCap")
    ELSE Ok([validated |-> TRUE])

validate_account_relationships(accounts, params) ==
    IF ~(accounts.quote_vault_mint = params.quote_mint) THEN Err("InvalidQuoteMint")
    ELSE IF ~(accounts.quote_vault_mint # accounts.base_vault_mint)
         THEN Err("InvalidPoolConfiguration")
    ELSE IF ~accounts.same_owner THEN Err("InvalidPoolConfiguration")
    ELSE Ok([validated |-> TRUE])

validate_quote_only_configuration(accounts, params) ==
    IF ~(params.quote_mint = accounts.quote_vault_mint
            \/ params.quote_mint = accounts.base_vault_mint)
    THEN Err("InvalidQuoteMint")
    ELSE IF ~(params.quote_mint = accounts.quote_vault_mint) THEN Err("InvalidQuoteMint")
    ELSE Ok([validated |-> TRUE])

\* the handler once the three validations passed: both accounts are
\* initialized; the PDA check that follows compares the accounts with the
\* derivations their seeds constraints already enforce
initialize_accounts(params) ==
    LET init == PolicyConfig_initialize(PolicyConfig_default,
                                        params.investor_fee_share_bps,
                                        params.daily_cap_lamports,
                                        params.min_payout_lamports,
                                        params.y0_total_allocation)
    IN  [ok |-> init.ok, err |-> init.err,
         policy_config |-> init.self,
         distribution_progress |-> IF init.ok THEN Some(initialize) ELSE None]

\* Result<()>, with the policy_config account in memory when the handler
\* returns and the distribution_progress account if it was initialized
initialize_honorary_position(params, accounts) ==
    LET untouched == [policy_config |-> PolicyConfig_default,
                      distribution_progress |-> None]
        v1 == validate_initialization_params(params)
        v2 == validate_account_relationships(accounts, params)
        v3 == validate_quote_only_configuration(accounts, params)
    IN  IF ~v1.ok THEN v1 @@ untouched
        ELSE IF ~v2.ok THEN v2 @@ untouched
        ELSE IF ~v3.ok THEN v3 @@ untouched
        ELSE initialize_accounts(params)

\* ---------------------------------------------------------------------------
\* Fixed-point distribution math (utils/math.rs)
\* ---------------------------------------------------------------------------
calculate_distribution_whole(claimed_quote, locked_total, y0_total, investor_fee_share_bps) ==
    Ok([investor |-> (claimed_quote * Min(investor_fee_share_bps, MAX_BASIS_POINTS))
                        \div MAX_BASIS_POINTS,
        creator |-> claimed_quote])

calculate_distribution_all_locked(claimed_quote, locked_total, y0_total, investor_fee_share_bps) ==
    IF y0_total = 0 \/ claimed_quote = 0 THEN Ok([investor |-> 0, creator |-> claimed_quote])
    ELSE LET f_locked == (locked_total * MAX_BASIS_POINTS) \div y0_total
             investor_fee_quote == (claimed_quote * Min(MAX_BASIS_POINTS, f_locked))
                                       \div MAX_BASIS_POINTS
         IN  Ok([investor |-> investor_fee_quote,
                 creator |-> claimed_quote - investor_fee_quote])

\* Result<(investor_amount, creator_amount)>; the u128 products of a u64 and a
\* value of at most 10000 cannot overflow
calculate_distribution(claimed_quote, locked_total, y0_total, investor_fee_share_bps) ==
    IF ~(investor_fee_share_bps <= MAX_BASIS_POINTS) THEN Err("InvalidInvestorFeeShare")
    ELSE IF y0_total = 0 \/ claimed_quote = 0
         THEN Ok([investor |-> 0, creator |-> claimed_quote])
    ELSE LET f_locked == (locked_total * MAX_BASIS_POINTS) \div y0_total
             eligible_share_bps == Min(investor_fee_share_bps, f_locked)
             investor_fee_quote == (claimed_quote * eligible_share_bps) \div MAX_BASIS_POINTS
             creator_fee_quote == claimed_quote - investor_fee_quote
         IN  Ok([investor |-> investor_fee_quote, creator |-> creator_fee_quote])

calculate_investor_weight_whole(investor_locked, total_locked) == WEIGHT_PRECISION

calculate_investor_weight(investor_locked, total_locked) ==
    IF total_locked = 0 THEN 0
    ELSE (investor_locked * WEIGHT_PRECISION) \div total_locked

\* Result<(payout_amount, dust_amount)>; the u128 product is checked, the
\* quotient is cast to u64 with `as`, which keeps its low 64 bits
calculate_individual_payout(total_investor_amount, investor_weight, min_payout) ==
    IF total_investor_amount # 0 /\ investor_weight > U128_MAX \div total_investor_amount
    THEN Err("ArithmeticOverflow")
    ELSE
    LET raw_payout == ((total_investor_amount * investor_weight) \div WEIGHT_PRECISION)
                          % (U64_MAX + 1)
    IN  IF raw_payout < min_payout
        THEN [ok |-> TRUE, err |-> "none", payout |-> 0, dust |-> raw_payout]
        ELSE [ok |-> TRUE, err |-> "none", payout |-> raw_payout, dust |-> 0]

RECURSIVE batch_loop(_, _, _, _, _)
\* the loop of calculate_batch_payout over the investors left, with the running
\* totals: Result<(total_paid, loop_dust)>
batch_loop(investors, total_investor_amount, min_payout, total_paid, loop_dust) ==
    IF investors = <<>> THEN Ok([total_paid |-> total_paid, loop_dust |-> loop_dust])
    ELSE LET ip == calculate_individual_payout(total_investor_amount, Head(investors)[2],
                                               min_payout)
         IN  IF ~ip.ok THEN ip
             ELSE IF total_paid + ip.payout > U64_MAX THEN Err("ArithmeticOverflow")
             ELSE IF loop_dust + ip.dust > U64_MAX THEN Err("ArithmeticOverflow")
             ELSE batch_loop(Tail(investors), total_investor_amount, min_payout,
                             total_paid + ip.payout, loop_dust + ip.dust)

\* calculate_batch_payout after the loop returned totals
batch_totals(totals, total_investor_amount, carry_over_dust) ==
    LET over == totals.total_paid > total_investor_amount
        adjusted_paid == IF over THEN total_investor_amount ELSE totals.total_paid
        overshoot == IF over THEN totals.total_paid - total_investor_amount ELSE 0
        loop_dust == totals.loop_dust + overshoot
        remainder == total_investor_amount - adjusted_paid
        unmatched_distribution == saturating_sub(remainder, loop_dust)
    IN  IF loop_dust > U64_MAX THEN Err("ArithmeticOverflow")
        ELSE IF carry_over_dust + loop_dust > U64_MAX THEN Err("ArithmeticOverflow")
        ELSE IF carry_over_dust + loop_dust + unmatched_distribution > U64_MAX
             THEN Err("ArithmeticOverflow")
        ELSE Ok([total_paid |-> adjusted_paid,
                 total_dust |-> carry_over_dust + loop_dust + unmatched_distribution])

\* Result<(total_paid, total_dust)>; investors are (locked_amount, weight) pairs
calculate_batch_payout(investors, total_investor_amount, min_payout, carry_over_dust) ==
    IF carry_over_dust >= U64_MAX \div 2
    THEN Ok([total_paid |-> 0, total_dust |-> total_investor_amount])
    ELSE LET totals == batch_loop(investors, total_investor_amount, min_payout, 0, 0)
         IN  IF ~totals.ok THEN totals
             ELSE batch_totals(totals, total_investor_amount, carry_over_dust)

enforce_daily_cap_none(p, additional_amount, daily_cap) == Ok([allowed |-> additional_amount])

\* Result<u64>
enforce_daily_cap(p, additional_amount, daily_cap) ==
    IF ~IsSome(daily_cap) THEN Ok([allowed |-> additional_amount])
    ELSE LET cap == Unwrap(daily_cap)
             current_distributed == p.current_day_distributed
         IN  IF cap < current_distributed THEN Err("DailyCapExceeded")
             ELSE LET available_capacity == cap - current_distributed
                  IN  IF available_capacity = 0 THEN Err("DailyCapExceeded")
                      ELSE Ok([allowed |-> Min(additional_amount, available_capacity)])

calculate_dust_payout_keep(accumulated_dust, min_payout) ==
    IF accumulated_dust >= min_payout
    THEN [payout |-> (accumulated_dust \div min_payout) * min_payout,
          remaining |-> accumulated_dust]
    ELSE [payout |-> 0, remaining |-> accumulated_dust]

\* (payout_amount, remaining_dust)
calculate_dust_payout(accumulated_dust, min_payout) ==
    IF accumulated_dust >= min_payout
    THEN LET payout_multiples == accumulated_dust \div min_payout
             payout_amount == payout_multiples * min_payout
         IN  [payout |-> payout_amount, remaining |-> accumulated_dust - payout_amount]
    ELSE [payout |-> 0, remaining |-> accumulated_dust]

\* ---------------------------------------------------------------------------
\* Streamflow aggregation (utils/streamflow.rs); a stream account is given by
\* its recipient and its still-locked amount at the invocation's timestamp
\* ---------------------------------------------------------------------------
RECURSIVE SumSeq(_, _)
\* saturating sum of the locked amounts of the streams of one wallet (wallet 0: of all streams)
SumSeq(streams, wallet) ==
    IF streams = <<>> THEN 0
    ELSE LET s == Head(streams)
         IN  IF wallet = 0 \/ s.recipient = wallet
             THEN saturating_add(SumSeq(Tail(streams), wallet), s.locked)
             ELSE SumSeq(Tail(streams), wallet)

\* total locked over all stream accounts passed to the invocation
calculate_total_locked(stream_accounts) == SumSeq(stream_accounts, 0)

\* investor wallet -> locked amount summed over the wallet's streams in the page
aggregate_investor_data(stream_accounts) ==
    [w \in {stream_accounts[i].recipient : i \in DOMAIN stream_accounts} |->
        SumSeq(stream_accounts, w)]

RECURSIVE SumF(_, _)
\* sum of f over the finite set S
SumF(f, S) ==
    IF S = {} THEN 0
    ELSE LET x == CHOOSE y \in S : TRUE
         IN  f[x] + SumF(f, S \ {x})

\* accounts[page_start .. end_index) with 0-based indices
PageSlice(stream_accounts, page_start, page_size) ==
    LET end_index == Min(page_start + page_size, Len(stream_accounts))
    IN  SubSeq(stream_accounts, page_start + 1, end_index)

\* ---------------------------------------------------------------------------
\* Fee claiming (utils/fee_claiming.rs); the position account is given by the
\* fees it owes and by which of its two mints is the policy's quote mint
\* ---------------------------------------------------------------------------
validate_quote_only_fees(fee_data) ==
    IF fee_data.quote_side = "none" THEN Err("InvalidQuoteMint")
    ELSE LET base_fees == IF fee_data.quote_side = "a" THEN fee_data.fee_owed_b
                          ELSE fee_data.fee_owed_a
         IN  IF base_fees > 0 THEN Err("BaseFeeDetected") ELSE Ok([validated |-> TRUE])

\* utils/validation.rs: the guard on the amounts a claim returned
validate_claimed_fees_quote_only(claimed_quote_amount, claimed_base_amount) ==
    IF ~(claimed_quote_amount > 0) THEN Err("InsufficientFunds")
    ELSE IF ~(claimed_base_amount = 0) THEN Err("BaseFeeDetected")
    ELSE Ok([validated |-> TRUE])

\* Result<FeeClaimResult>
claim_position_fees(fee_data) ==
    LET guard == validate_quote_only_fees(fee_data)
    IN  IF ~guard.ok THEN guard
        ELSE LET quote_amount == IF fee_data.quote_side = "a" THEN fee_data.fee_owed_a
                                 ELSE fee_data.fee_owed_b
                 base_amount == IF fee_data.quote_side = "a" THEN fee_data.fee_owed_b
                                ELSE fee_data.fee_owed_a
             IN  IF base_amount > 0 THEN Err("BaseFeeDetected")
                 ELSE IF quote_amount = 0 THEN Ok([quote_amount |-> 0, base_amount |-> 0])
                 ELSE IF ~fee_data.cpi_ok THEN Err("FeeClaimingFailed")
                 ELSE Ok([quote_amount |-> quote_amount, base_amount |-> 0])

\* ---------------------------------------------------------------------------
\* Investor page processing (utils/investor_distribution.rs)
\* ---------------------------------------------------------------------------
\* (ata_address, needs_creation): the address is not modelled
get_or_derive_investor_ata(investor_wallet) == [needs_creation |-> TRUE]

\* Result<()>; .transfers maps each investor that reaches the transfer step to
\* the amount transferred, .total_transferred is the function's running total
execute_investor_payouts(payouts, capped_total, original_total, dust_payout) ==
    LET scale_factor == IF original_total > 0
                        THEN (capped_total * WEIGHT_PRECISION) \div original_total
                        ELSE WEIGHT_PRECISION
        scaled_payout(w) == IF scale_factor < WEIGHT_PRECISION
                            THEN ((payouts[w].payout_amount * scale_factor) \div WEIGHT_PRECISION)
                                     % (U64_MAX + 1)
                            ELSE payouts[w].payout_amount
        paid_wallets == {w \in DOMAIN payouts :
                            /\ payouts[w].payout_amount # 0
                            /\ scaled_payout(w) # 0
                            /\ ~payouts[w].needs_ata_creation}
        transfers == [w \in paid_wallets |-> scaled_payout(w)]
        investors_total == SumF(transfers, paid_wallets)
        total_transferred == IF dust_payout > 0 THEN investors_total + dust_payout
                             ELSE investors_total
    IN  IF investors_total > U64_MAX \/ total_transferred > U64_MAX
        THEN Err("ArithmeticOverflow")
        ELSE Ok([transfers |-> transfers, total_transferred |-> total_transferred])

\* InvestorPayout of one investor of the page; .ok is FALSE when the payout
\* calculation returned an error, which ends the loop
investor_payout(policy, wallet, locked_amount, weight, total_investor_amount) ==
    LET ip == calculate_individual_payout(total_investor_amount, weight,
                                          policy.min_payout_lamports)
    IN  [ok |-> ip.ok,
         locked_amount |-> locked_amount,
         weight |-> weight,
         payout_amount |-> IF ip.ok THEN ip.payout ELSE 0,
         dust_amount |-> IF ip.ok THEN ip.dust ELSE 0,
         needs_ata_creation |-> get_or_derive_investor_ata(wallet).needs_creation]

\* the payouts of the page: the loop over the page's investors
page_payouts(policy, investor_data, total_investor_amount, total_locked_amount) ==
    [w \in DOMAIN investor_data |->
        investor_payout(policy, w, investor_data[w],
                        calculate_investor_weight(investor_data[w], total_locked_amount),
                        total_investor_amount)]

\* process_investor_page once the transfers were executed with result exec:
\* ledger updates and the BatchPayoutResult
page_record(p, page_size, investor_data, payouts, dp, capped_amount, exec) ==
    IF ~exec.ok THEN exec
    ELSE
    LET added == IF capped_amount > 0 THEN add_distributed(p, capped_amount)
                 ELSE Ok([p |-> p])
        adv == advance_cursor([added.p EXCEPT !.carry_over_dust = dp.remaining], page_size)
    IN  IF ~added.ok THEN added
        ELSE IF ~adv.ok THEN adv
        ELSE Ok([p |-> adv.p,
                 total_paid |-> capped_amount,
                 total_dust |-> dp.remaining,
                 final_total_paid |->
                     SumF([w \in DOMAIN payouts |-> payouts[w].payout_amount],
                          DOMAIN payouts) + dp.payout,
                 page_dust |->
                     SumF([w \in DOMAIN payouts |-> payouts[w].dust_amount],
                          DOMAIN payouts),
                 dust_payout |-> dp.payout,
                 processed_count |-> Cardinality(DOMAIN investor_data),
                 payouts |-> payouts,
                 transfers |-> exec.transfers,
                 total_transferred |-> exec.total_transferred])

\* process_investor_page once the payouts of the page are computed: totals,
\* dust payout, daily cap and the transfers
page_totals(policy, p, page_size, investor_data, payouts) ==
    LET total_paid == SumF([w \in DOMAIN payouts |-> payouts[w].payout_amount],
                           DOMAIN payouts)
        total_dust == SumF([w \in DOMAIN payouts |-> payouts[w].dust_amount],
                           DOMAIN payouts)
        total_dust_with_carryover == total_dust + p.carry_over_dust
        dp == calculate_dust_payout(total_dust_with_carryover, policy.min_payout_lamports)
        final_total_paid == total_paid + dp.payout
        capped == enforce_daily_cap(p, final_total_paid, policy.daily_cap_lamports)
    IN  IF SumF(investor_data, DOMAIN investor_data) > U64_MAX
        THEN Err("ArithmeticOverflow")
        ELSE IF \E w \in DOMAIN payouts : ~payouts[w].ok THEN Err("ArithmeticOverflow")
        ELSE IF total_dust_with_carryover > U64_MAX THEN Err("ArithmeticOverflow")
        ELSE IF final_total_paid > U64_MAX THEN Err("ArithmeticOverflow")
        ELSE IF ~capped.ok THEN capped
        ELSE page_record(p, page_size, investor_data, payouts, dp, capped.allowed,
                         IF capped.allowed > 0
                         THEN execute_investor_payouts(payouts, capped.allowed,
                                                       final_total_paid, dp.payout)
                         ELSE Ok([transfers |-> <<>>, total_transferred |-> 0]))

\* Result<BatchPayoutResult>, with the ledger after the call in .p
process_investor_page(policy, p, streamflow_accounts, total_investor_amount, total_locked_amount, page_start, page_size) ==
    IF ~(page_size > 0 /\ page_size <= MAX_PAGE_SIZE) THEN Err("InvalidPaginationCursor")
    ELSE IF ~(page_start < Len(streamflow_accounts)) THEN Err("InvalidPaginationCursor")
    ELSE
    LET investor_data ==
            aggregate_investor_data(PageSlice(streamflow_accounts, page_start, page_size))
    IN  page_totals(policy, p, page_size, investor_data,
                    page_payouts(policy, investor_data, total_investor_amount,
                                 total_locked_amount))

\* the validation without the check of the start index
validate_distribution_params_any_start(policy, streamflow_accounts, page_start, page_size) ==
    IF ~(page_size > 0 /\ page_size <= MAX_PAGE_SIZE) THEN Err("InvalidPaginationCursor")
    ELSE IF ~PolicyConfig_validate(policy).ok THEN PolicyConfig_validate(policy)
    ELSE IF streamflow_accounts = <<>> THEN Err("StreamflowValidationFailed")
    ELSE Ok([validated |-> TRUE])

validate_distribution_params(policy, streamflow_accounts, page_start, page_size) ==
    IF ~(page_size > 0 /\ page_size <= MAX_PAGE_SIZE) THEN Err("InvalidPaginationCursor")
    ELSE IF ~(page_start < Len(streamflow_accounts)) THEN Err("InvalidPaginationCursor")
    ELSE IF ~PolicyConfig_validate(policy).ok THEN PolicyConfig_validate(policy)
    ELSE IF streamflow_accounts = <<>> THEN Err("StreamflowValidationFailed")
    ELSE Ok([validated |-> TRUE])

\* whether any investor in the page has a locked amount
validate_investor_eligibility(streamflow_accounts, page_start, page_size) ==
    LET investor_data == aggregate_investor_data(PageSlice(streamflow_accounts, page_start, page_size))
    IN  \E w \in DOMAIN investor_data : investor_data[w] > 0

\* ---------------------------------------------------------------------------
\* Creator remainder (utils/creator_distribution.rs)
\* ---------------------------------------------------------------------------
calculate_creator_remainder(policy, claimed_quote_amount, total_locked_amount) ==
    LET d == calculate_distribution(claimed_quote_amount, total_locked_amount,
                                    policy.y0_total_allocation, policy.investor_fee_share_bps)
    IN  IF ~d.ok THEN d ELSE Ok([creator_amount |-> d.creator])

\* ---------------------------------------------------------------------------
\* distribute_fees instruction (instructions/distribute_fees.rs)
\* ---------------------------------------------------------------------------
\* What one invocation did besides its result: filled in along the handler
NoTrace ==
    [timing |-> "none",          \* result of prepare_for_distribution
     retry |-> FALSE,            \* returned at the idempotent-retry exit
     guard |-> "none",           \* outcome of the quote-only guard, if it ran
     written_before_guard |-> FALSE,  \* the in-memory ledger was already written then
     claimed_quote |-> 0,
     entered |-> FALSE,          \* process_investor_distributions was called
     paged |-> FALSE,            \* process_investor_page succeeded
     total_locked |-> 0,
     investor_amount |-> 0,
     original |-> 0,             \* the page's total before the daily cap
     page_dust |-> 0,            \* the dust of the page's own payouts
     dust_payout |-> 0,          \* the dust the page pays out
     min_payout |-> 0,           \* the policy's threshold the page was computed with
     paid |-> 0,                 \* capped amount added to current_day_distributed
     remaining_dust |-> 0,       \* dust the page leaves to carry over
     transferred |-> 0,          \* total of execute_investor_payouts
     transfers |-> <<>>,         \* per-investor transfers
     settled |-> FALSE,          \* creator settlement ran and closed the day
     creator_payout |-> 0]

SettleAlways(p, total_investors) == TRUE

\* the day is closed once the cursor covers every stream account
AllInvestorsProcessed(p, total_investors) == p.pagination_cursor >= total_investors

\* the settlement: creator payout and day completion once every investor is paid
settle_day(policy, p, claimed_quote_amount, total_locked_amount, treasury_amount, t) ==
    LET cr == calculate_creator_remainder(policy, claimed_quote_amount, total_locked_amount)
    IN  IF ~cr.ok THEN cr @@ [t |-> t]
        ELSE IF cr.creator_amount > 0 /\ ~(treasury_amount >= cr.creator_amount)
        THEN Err("InsufficientFunds") @@ [p |-> p, t |-> t]
        ELSE Ok([p |-> complete_day(p),
                 t |-> [t EXCEPT !.settled = TRUE,
                                 !.creator_payout = cr.creator_amount]])

\* process_investor_distributions once the page was processed with result batch
page_outcome(policy, claimed_quote_amount, streamflow_accounts, treasury_amount, total_locked_amount, t2, batch) ==
    IF ~batch.ok THEN batch @@ [t |-> t2]
    ELSE
    LET t3 == [t2 EXCEPT !.paged = TRUE,
                         !.original = batch.final_total_paid,
                         !.page_dust = batch.page_dust,
                         !.dust_payout = batch.dust_payout,
                         !.min_payout = policy.min_payout_lamports,
                         !.paid = batch.total_paid,
                         !.remaining_dust = batch.total_dust,
                         !.transferred = batch.total_transferred,
                         !.transfers = batch.transfers]
    IN  IF ~AllInvestorsProcessed(batch.p, Len(streamflow_accounts))
        THEN Ok([p |-> batch.p, t |-> t3])
        ELSE settle_day(policy, batch.p, claimed_quote_amount, total_locked_amount,
                        treasury_amount, t3)

\* process_investor_distributions once the parameters are validated and the
\* day's split dist is computed
distribute_page(policy, p, params, claimed_quote_amount, streamflow_accounts, treasury_amount, t1, total_locked_amount, dist) ==
    IF ~dist.ok THEN dist @@ [t |-> t1]
    ELSE
    LET t2 == [t1 EXCEPT !.total_locked = total_locked_amount,
                         !.investor_amount = dist.investor]
        adv == advance_cursor(p, params.page_size)
    IN  IF /\ IsSome(policy.daily_cap_lamports)
           /\ saturating_sub(Unwrap(policy.daily_cap_lamports),
                             p.current_day_distributed) = 0
        THEN Ok([p |-> p, t |-> t2])
        ELSE IF ~validate_investor_eligibility(streamflow_accounts, p.pagination_cursor,
                                               params.page_size)
        THEN IF ~adv.ok THEN adv @@ [t |-> t2] ELSE Ok([p |-> adv.p, t |-> t2])
        ELSE page_outcome(policy, claimed_quote_amount, streamflow_accounts,
                          treasury_amount, total_locked_amount, t2,
                          process_investor_page(policy, p, streamflow_accounts,
                                                dist.investor, total_locked_amount,
                                                p.pagination_cursor, params.page_size))

\* Result<()>, with the ledger after the call in .p and the trace in .t
process_investor_distributions(policy, p, params, claimed_quote_amount, streamflow_accounts, treasury_amount, t0) ==
    LET t1 == [t0 EXCEPT !.entered = TRUE]
        valid == validate_distribution_params(policy, streamflow_accounts,
                                              p.pagination_cursor, params.page_size)
        total_locked_amount == calculate_total_locked(streamflow_accounts)
    IN  IF ~valid.ok THEN valid @@ [t |-> t1]
        ELSE distribute_page(policy, p, params, claimed_quote_amount, streamflow_accounts,
                             treasury_amount, t1, total_locked_amount,
                             calculate_distribution(claimed_quote_amount,
                                                    total_locked_amount,
                                                    policy.y0_total_allocation,
                                                    policy.investor_fee_share_bps))

\* the handler once the fees are claimed with result claimed_fees: the
\* investor distribution, when there is something to distribute (an error
\* raised before the page is processed leaves the ledger as prepare left it)
after_claim(policy, p0, params, streamflow_accounts, treasury_amount, prep, t1, claimed_fees) ==
    LET t2 == IF prep.state = "NewDay"
              THEN [t1 EXCEPT !.guard = IF claimed_fees.ok THEN "passed"
                                        ELSE claimed_fees.err,
                              !.written_before_guard = (prep.p # p0)]
              ELSE t1
        t3 == [t2 EXCEPT !.claimed_quote = claimed_fees.quote_amount]
    IN  IF ~claimed_fees.ok THEN claimed_fees @@ [p |-> prep.p, t |-> t2]
        ELSE IF /\ streamflow_accounts # <<>>
                /\ (claimed_fees.quote_amount > 0 \/ prep.p.carry_over_dust > 0)
        THEN process_investor_distributions(policy, prep.p, params,
                                            claimed_fees.quote_amount, streamflow_accounts,
                                            treasury_amount, t3)
                 @@ [p |-> prep.p]
        ELSE Ok([p |-> prep.p, t |-> t3])

\* the handler once prepare_for_distribution returned prep: cursor check and
\* fee claim
after_prepare(policy, p0, params, fee_data, streamflow_accounts, treasury_amount, prep) ==
    IF ~prep.ok THEN prep @@ [p |-> p0, t |-> NoTrace]
    ELSE
    LET t1 == [NoTrace EXCEPT !.timing = prep.state]
        retry == IF IsSome(params.cursor_position)
                 THEN validate_cursor_for_retry(prep.p, Unwrap(params.cursor_position))
                 ELSE Ok([is_retry |-> FALSE])
    IN  IF ~retry.ok THEN retry @@ [p |-> prep.p, t |-> t1]
        ELSE IF retry.is_retry THEN Ok([p |-> prep.p, t |-> [t1 EXCEPT !.retry = TRUE]])
        ELSE after_claim(policy, p0, params, streamflow_accounts, treasury_amount, prep, t1,
                         IF prep.state = "NewDay" THEN claim_position_fees(fee_data)
                         ELSE Ok([quote_amount |-> 0, base_amount |-> 0]))

\* Result<()>, with the in-memory ledger at return in .p and the trace in .t
handler(policy, p0, current_timestamp, params, fee_data, streamflow_accounts, treasury_amount) ==
    IF ~(params.page_size > 0 /\ params.page_size <= MAX_PAGE_SIZE)
    THEN Err("InvalidPaginationCursor") @@ [p |-> p0, t |-> NoTrace]
    ELSE after_prepare(policy, p0, params, fee_data, streamflow_accounts, treasury_amount,
                       prepare_for_distribution(p0, current_timestamp))

\* ---------------------------------------------------------------------------
\* Inputs of an invocation
\* ---------------------------------------------------------------------------
Times == {0} \cup {d * TWENTY_FOUR_HOURS - o : d \in 1..MaxDays, o \in {0, 1}}

PageSizes == {0, 1, MAX_PAGE_SIZE, MAX_PAGE_SIZE + 1}

CursorPositions == {None} \cup {Some(c) : c \in 0..MaxStreams}

\* the position pays its quote fees on either side; one position owes base fees,
\* one holds neither mint of the policy, one makes the claiming CPI fail
FeeDatas ==
    {[fee_owed_a |-> 100, fee_owed_b |-> 0,   quote_side |-> "a",    cpi_ok |-> TRUE],
     [fee_owed_a |-> 0,   fee_owed_b |-> 0,   quote_side |-> "a",    cpi_ok |-> TRUE],
     [fee_owed_a |-> 100, fee_owed_b |-> 7,   quote_side |-> "a",    cpi_ok |-> TRUE],
     [fee_owed_a |-> 0,   fee_owed_b |-> 100, quote_side |-> "b",    cpi_ok |-> TRUE],
     [fee_owed_a |-> 100, fee_owed_b |-> 0,   quote_side |-> "none", cpi_ok |-> TRUE],
     [fee_owed_a |-> 100, fee_owed_b |-> 0,   quote_side |-> "a",    cpi_ok |-> FALSE]}

StreamAccounts ==
    {[recipient |-> 1, locked |-> 0],
     [recipient |-> 1, locked |-> 300],
     [recipient |-> 2, locked |-> 500]}

\* a stream account is passed at most once in an invocation
AccountLists ==
    UNION {{l \in [1..n -> StreamAccounts] : \A i, j \in 1..n : l[i] = l[j] => i = j} :
           n \in 0..MaxStreams}

TreasuryAmounts == {0, U64_MAX}

Policies ==
    {pol \in {[investor_fee_share_bps |-> 5000, daily_cap_lamports |-> None,
               min_payout_lamports |-> 40, y0_total_allocation |-> 1000],
              [investor_fee_share_bps |-> MAX_BASIS_POINTS, daily_cap_lamports |-> Some(30),
               min_payout_lamports |-> 40, y0_total_allocation |-> 1000]} :
        PolicyConfig_validate(pol).ok}

\* ---------------------------------------------------------------------------
\* State
\* ---------------------------------------------------------------------------
VARIABLES
    policy,      \* the vault's PolicyConfig account
    progress,    \* the vault's DistributionProgress account as persisted
    last,        \* the last operation that changed the ledger, and what it did
    day,         \* accounting of the current distribution day
    new_days,    \* timestamps of the invocations that started a day, in order
    math,        \* a call of a function of utils/math.rs: arguments and result
    crank        \* the caller that pages through a day: its accounts and page size

vars == <<policy, progress, last, day, new_days, math, crank>>

\* no caller is paging through a day
NoCrank == [active |-> FALSE, failed |-> FALSE]

\* no function of utils/math.rs is being called
NoMath == [fn |-> "none", applied |-> FALSE]

NoDay ==
    [claimed |-> 0, start_dust |-> 0, investor_amount |-> 0,
     transferred |-> 0, creator |-> 0]

\* what is remembered of an invocation with result r on n stream accounts
LastOf(r, n) ==
    [op |-> "distribute_fees",
     timing |-> r.t.timing,
     settled |-> r.t.settled,
     total_investors |-> IF r.t.settled THEN n ELSE 0,
     total_locked |-> IF r.t.settled THEN r.t.total_locked ELSE 0,
     creator_payout |-> r.t.creator_payout]

Init ==
    /\ policy \in Policies
    /\ progress = initialize
    /\ last = [LastOf([t |-> NoTrace], 0) EXCEPT !.op = "initialize"]
    /\ day = NoDay
    /\ new_days = <<>>
    /\ math = NoMath
    /\ crank = NoCrank

CommitAlways(pre, r) == r.p

\* the account is written back when the instruction returns Ok and is left as
\* it was when it returns an error
Commit(pre, r) == IF r.ok THEN r.p ELSE pre

\* day accounting after an invocation with result r
DayAfter(pre, r) ==
    IF ~r.ok THEN day
    ELSE IF r.t.timing = "NewDay"
    THEN [claimed |-> r.t.claimed_quote,
          start_dust |-> pre.carry_over_dust,
          investor_amount |-> r.t.investor_amount,
          transferred |-> r.t.transferred,
          creator |-> r.t.creator_payout]
    ELSE [day EXCEPT !.transferred = @ + r.t.transferred,
                     !.creator = @ + r.t.creator_payout]

\* The inputs an invocation reads.  The handler returns before it reads the
\* position when the page size is invalid, the timing check fails, the cursor
\* check fails or detects a retry, and it reads the position only on a new day;
\* it reads the stream accounts only past the fee claim and the treasury only
\* in the settlement of a day whose fees it claimed.
\* Inputs that are not read are not enumerated.
ReachesClaim(p, current_timestamp, params) ==
    /\ params.page_size > 0 /\ params.page_size <= MAX_PAGE_SIZE
    /\ LET prep == prepare_for_distribution(p, current_timestamp)
       IN  /\ prep.ok
           /\ \/ ~IsSome(params.cursor_position)
              \/ LET retry == validate_cursor_for_retry(prep.p, Unwrap(params.cursor_position))
                 IN  retry.ok /\ ~retry.is_retry

FeeDatasRead(p, current_timestamp, params) ==
    IF /\ ReachesClaim(p, current_timestamp, params)
       /\ prepare_for_distribution(p, current_timestamp).state = "NewDay"
    THEN FeeDatas
    ELSE {CHOOSE f \in FeeDatas : f.fee_owed_a = 0 /\ f.fee_owed_b = 0}

AccountListsRead(p, current_timestamp, params, fee_data) ==
    IF /\ ReachesClaim(p, current_timestamp, params)
       /\ \/ prepare_for_distribution(p, current_timestamp).state # "NewDay"
          \/ claim_position_fees(fee_data).ok
    THEN AccountLists
    ELSE {<<>>}

\* the treasury balance is read by the settlement when the creator amount is
\* positive, which takes fees claimed in this invocation
TreasuryAmountsRead(p, current_timestamp, fee_data, streamflow_accounts) ==
    IF /\ streamflow_accounts # <<>>
       /\ prepare_for_distribution(p, current_timestamp).state = "NewDay"
       /\ claim_position_fees(fee_data).quote_amount > 0
    THEN TreasuryAmounts
    ELSE {0}

\* how a requested start index relates to the persisted cursor
CursorRelation(p, cursor_position) ==
    IF ~IsSome(cursor_position) THEN "none"
    ELSE IF Unwrap(cursor_position) < p.pagination_cursor THEN "below"
    ELSE IF Unwrap(cursor_position) = p.pagination_cursor THEN "equal"
    ELSE "above"

\* the invocations possible on ledger p that pass one of cursor_positions,
\* each with its inputs and its result r
Calls(pol, p, cursor_positions) ==
    UNION {
      LET params == [page_size |-> a[2], cursor_position |-> a[3]] IN
      UNION {
        UNION {
          {[current_timestamp |-> a[1], params |-> params,
            fee_data |-> fee_data,
            streamflow_accounts |-> streamflow_accounts,
            treasury_amount |-> treasury_amount,
            total_investors |-> Len(streamflow_accounts),
            r |-> handler(pol, p, a[1], params, fee_data, streamflow_accounts,
                          treasury_amount)] :
             treasury_amount \in TreasuryAmountsRead(p, a[1], fee_data,
                                                     streamflow_accounts)} :
          streamflow_accounts \in AccountListsRead(p, a[1], params, fee_data)} :
        fee_data \in FeeDatasRead(p, a[1], params)} :
      a \in Times \X PageSizes \X cursor_positions}

\* one distribute_fees transaction
DistributeFees ==
    \E c \in Calls(policy, progress, CursorPositions) :
        /\ progress' = Commit(progress, c.r)
        /\ last' = IF Commit(progress, c.r) # progress
                   THEN LastOf(c.r, c.total_investors)
                   ELSE last
        /\ day' = DayAfter(progress, c.r)
        /\ new_days' = IF c.r.ok /\ c.r.t.timing = "NewDay"
                       THEN Append(new_days, c.current_timestamp)
                       ELSE new_days
        /\ UNCHANGED <<policy, math, crank>>

Next == DistributeFees

Spec == Init /\ [][Next]_vars

\* The same transaction with the accounting variables left alone: what an
\* invocation returns depends on the policy and the persisted ledger only, so
\* the properties of a single invocation are checked over the ledgers the
\* program reaches.
DistributeFeesLedger ==
    \E c \in Calls(policy, progress, CursorPositions) :
        /\ progress' = Commit(progress, c.r)
        /\ UNCHANGED <<policy, last, day, new_days, math, crank>>

HandlerNext == DistributeFeesLedger

HandlerSpec == Init /\ [][HandlerNext]_vars

\* The same transitions once more, for the properties of the page cursor and
\* of a resumed day: they range over the same ledgers and are checked apart
\* from the properties of the retry and of the reverted transaction.
PageNext == DistributeFeesLedger

PageSpec == Init /\ [][PageNext]_vars

\* The same transitions a third time, for the properties of the closed day
\* and of the day rollover.
DayNext == DistributeFeesLedger

DaySpec == Init /\ [][DayNext]_vars

\* ---------------------------------------------------------------------------
\* The transactions of any callers, with the day's accounting in `day` being
\* the indices of the stream accounts that the successful page operations of
\* the day processed.
\* ---------------------------------------------------------------------------
NoPaid ==
    [processed |-> [i \in 0..(MaxStreams - 1) |-> 0], pages |-> 0, retried |-> FALSE]

\* the indices of the page [page_start, page_start + page_size) of n accounts
PageIndices(page_start, page_size, n) ==
    {i \in 0..(n - 1) : i >= page_start /\ i < page_start + page_size}

\* the indices the invocation c on ledger pre processed
ProcessedBy(pre, c) ==
    IF c.r.ok /\ c.r.t.paged
    THEN PageIndices(prepare_for_distribution(pre, c.current_timestamp).p.pagination_cursor,
                     c.params.page_size, c.total_investors)
    ELSE {}

PaidAfter(pre, c) ==
    LET before == IF c.r.t.timing = "NewDay" THEN NoPaid ELSE day
    IN  IF ~c.r.ok THEN day
        ELSE [processed |-> [i \in 0..(MaxStreams - 1) |->
                                before.processed[i]
                                    + IF i \in ProcessedBy(pre, c) THEN 1 ELSE 0],
              pages |-> before.pages + IF c.r.t.paged THEN 1 ELSE 0,
              retried |-> before.retried \/ c.r.t.retry]

PaidInit ==
    /\ policy \in Policies
    /\ progress = initialize
    /\ last = [LastOf([t |-> NoTrace], 0) EXCEPT !.op = "initialize"]
    /\ day = NoPaid
    /\ new_days = <<>>
    /\ math = NoMath
    /\ crank = NoCrank

DistributeFeesPaid ==
    \E c \in Calls(policy, progress, CursorPositions) :
        /\ progress' = Commit(progress, c.r)
        /\ day' = PaidAfter(progress, c)
        /\ UNCHANGED <<policy, last, new_days, math, crank>>

PaidNext == DistributeFeesPaid

PaidSpec == PaidInit /\ [][PaidNext]_vars

\* ---------------------------------------------------------------------------
\* A caller that pages through a day: it starts the day with an invocation
\* that succeeds, then keeps invoking within the 24 hours with the same stream
\* accounts, the same page size and the ledger's cursor as start index, until
\* the day is complete or an invocation fails.
\* ---------------------------------------------------------------------------
CrankPageSizes == {1, MAX_PAGE_SIZE}

\* the invocations a caller makes on ledger p: some stream accounts, a page
\* size that is accepted, the treasury funded
CrankCalls(p, cursor_positions) ==
    {c \in Calls(policy, p, cursor_positions) :
        /\ c.params.page_size \in CrankPageSizes
        /\ c.streamflow_accounts # <<>>
        /\ c.treasury_amount = IF U64_MAX \in TreasuryAmountsRead(p, c.current_timestamp,
                                                                  c.fee_data,
                                                                  c.streamflow_accounts)
                               THEN U64_MAX ELSE 0}

\* the invocation that starts a day, by a caller that is not paging through one
CrankNewDay ==
    /\ ~crank.active \/ crank.failed \/ progress.day_complete
    /\ \E c \in CrankCalls(progress, {None, Some(0)}) :
            /\ c.r.ok
            /\ c.r.t.timing = "NewDay"
            /\ progress' = Commit(progress, c.r)
            /\ crank' = [active |-> TRUE, failed |-> FALSE, pages |-> 1,
                         page_size |-> c.params.page_size,
                         streamflow_accounts |-> c.streamflow_accounts,
                         total_investors |-> c.total_investors]
            /\ UNCHANGED <<policy, last, day, new_days, math>>

\* what the caller's next invocations within the day leave: the ledger and
\* whether the invocation failed
CrankOutcomes(p, page_size, streamflow_accounts) ==
    {[p |-> Commit(p, c.r), failed |-> ~c.r.ok] :
        c \in {c \in CrankCalls(p, {Some(p.pagination_cursor)}) :
                 /\ c.params.page_size = page_size
                 /\ c.streamflow_accounts = streamflow_accounts
                 /\ c.current_timestamp >= p.last_distribution_ts
                 /\ c.current_timestamp - p.last_distribution_ts < TWENTY_FOUR_HOURS}}

\* the next invocation of the caller within the day
CrankNextPage ==
    /\ crank.active /\ ~crank.failed /\ ~progress.day_complete
    /\ \E o \in CrankOutcomes(progress, crank.page_size, crank.streamflow_accounts) :
            /\ progress' = o.p
            /\ crank' = [crank EXCEPT !.failed = o.failed,
                                      !.pages = IF o.p # progress THEN @ + 1 ELSE @]
            /\ UNCHANGED <<policy, last, day, new_days, math>>

CrankNext == CrankNewDay \/ CrankNextPage

\* the caller keeps invoking: an invocation that is possible is made
CrankSpec == Init /\ [][CrankNext]_vars /\ WF_vars(CrankNextPage)

\* an invocation of the caller would change the ledger or fail
CrankPending ==
    /\ crank.active /\ ~crank.failed /\ ~progress.day_complete
    /\ \E o \in CrankOutcomes(progress, crank.page_size, crank.streamflow_accounts) :
            o.p # progress \/ o.failed

\* ---------------------------------------------------------------------------
\* Creation of the vault's accounts: initialize_honorary_position called with
\* any parameters, before the accounts exist and after
\* ---------------------------------------------------------------------------
PolicyShares == {0, 1, 5000, MAX_BASIS_POINTS, MAX_BASIS_POINTS + 1}

PolicyAmounts == {0, 1, 40, LedgerAmount, U64_MAX}

InitializeParams ==
    [quote_mint : {"quote"},
     investor_fee_share_bps : PolicyShares,
     daily_cap_lamports : {None} \cup {Some(cap) : cap \in PolicyAmounts},
     min_payout_lamports : PolicyAmounts,
     y0_total_allocation : PolicyAmounts]

InitializeAccounts ==
    [quote_vault_mint : {"quote", "other"},
     base_vault_mint : {"base", "quote"},
     same_owner : BOOLEAN]

\* no account of the vault exists yet
CreateInit ==
    /\ policy = None
    /\ progress = None
    /\ last = [LastOf([t |-> NoTrace], 0) EXCEPT !.op = "none"]
    /\ day = NoDay
    /\ new_days = <<>>
    /\ math = NoMath
    /\ crank = NoCrank

\* an account that would stay as the handler left it, error or not
CreatedAlways(existing, r, account) ==
    IF existing # None THEN existing ELSE Some(account)

\* the init constraint: the instruction fails when the account exists, and
\* an account created by an instruction that returns an error is rolled back
Created(existing, r, account) ==
    IF existing # None THEN existing
    ELSE IF r.ok THEN Some(account)
    ELSE None

InitializeHonoraryPosition ==
    \E params \in InitializeParams, accounts \in InitializeAccounts :
        LET r == initialize_honorary_position(params, accounts)
        IN  /\ policy' = Created(policy, r, r.policy_config)
            /\ progress' = IF policy # None THEN progress ELSE r.distribution_progress
            /\ last' = IF policy' # policy
                       THEN [last EXCEPT !.op = "initialize_honorary_position"]
                       ELSE last
            /\ UNCHANGED <<day, new_days, math, crank>>

CreateNext == InitializeHonoraryPosition

CreateSpec == CreateInit /\ [][CreateNext]_vars

\* ---------------------------------------------------------------------------
\* The ledger's methods called directly, in any order
\* ---------------------------------------------------------------------------
LedgerAmounts == {LedgerAmount}

LedgerCursors == {0, MAX_PAGE_SIZE, U32_MAX}

\* the ledger after a method returned res: a method that returns Err has not
\* assigned any field, each require! and checked operation precedes the
\* method's assignments
Returned(p, res) == IF res.ok THEN res.p ELSE p

LedgerLast(op, timing) ==
    [LastOf([t |-> [NoTrace EXCEPT !.timing = timing]], 0) EXCEPT !.op = op]

LedgerCall(op, res, timing) ==
    /\ progress' = Returned(progress, res)
    /\ last' = IF Returned(progress, res) # progress THEN LedgerLast(op, timing) ELSE last
    /\ UNCHANGED <<policy, day, math, crank>>

Prepare ==
    \E current_timestamp \in Times :
        LET res == prepare_for_distribution(progress, current_timestamp)
            timing == IF res.ok THEN res.state ELSE "none"
        IN  /\ LedgerCall("prepare_for_distribution", res, timing)
            /\ new_days' = IF timing = "NewDay" THEN Append(new_days, current_timestamp)
                           ELSE new_days

StartNewDay ==
    \E current_timestamp \in Times :
        LET res == start_new_day(progress, current_timestamp)
        IN  /\ LedgerCall("start_new_day", res, IF res.ok THEN "NewDay" ELSE "none")
            /\ new_days' = IF res.ok THEN Append(new_days, current_timestamp) ELSE new_days

AddDistributed ==
    \E amount \in LedgerAmounts :
        /\ LedgerCall("add_distributed", add_distributed(progress, amount), "none")
        /\ UNCHANGED new_days

UpdateCursor ==
    \E new_cursor \in LedgerCursors :
        /\ LedgerCall("update_cursor", update_cursor(progress, new_cursor), "none")
        /\ UNCHANGED new_days

AdvanceCursor ==
    /\ LedgerCall("advance_cursor", advance_cursor(progress, MAX_PAGE_SIZE), "none")
    /\ UNCHANGED new_days

ResetCursorTo ==
    \E cursor_position \in LedgerCursors :
        /\ LedgerCall("reset_cursor_to", reset_cursor_to(progress, cursor_position), "none")
        /\ UNCHANGED new_days

CompleteDay ==
    /\ LedgerCall("complete_day", Ok([p |-> complete_day(progress)]), "none")
    /\ UNCHANGED new_days

AddDust ==
    \E dust_amount \in LedgerAmounts :
        /\ LedgerCall("add_dust", add_dust(progress, dust_amount), "none")
        /\ UNCHANGED new_days

ConsumeDust ==
    \E amount \in LedgerAmounts :
        /\ LedgerCall("consume_dust", consume_dust(progress, amount), "none")
        /\ UNCHANGED new_days

ResetForContinuation ==
    /\ LedgerCall("reset_for_continuation", Ok([p |-> reset_for_continuation(progress)]),
                  "none")
    /\ UNCHANGED new_days

MarkPageProcessed ==
    \E page_start \in LedgerCursors, overflow_checks \in BOOLEAN :
        /\ LedgerCall("mark_page_processed",
                      mark_page_processed(progress, page_start, MAX_PAGE_SIZE,
                                          overflow_checks),
                      "none")
        /\ UNCHANGED new_days

LedgerNext ==
    \/ Prepare
    \/ StartNewDay
    \/ AddDistributed
    \/ UpdateCursor
    \/ AdvanceCursor
    \/ ResetCursorTo
    \/ CompleteDay
    \/ AddDust
    \/ ConsumeDust
    \/ ResetForContinuation
    \/ MarkPageProcessed

LedgerSpec == Init /\ [][LedgerNext]_vars

\* ---------------------------------------------------------------------------
\* The functions of utils/math.rs and the quote-only guards called on their
\* own: the arguments are drawn at the start, one step applies the function to
\* them
\* ---------------------------------------------------------------------------
\* the total process_investor_page passes to execute_investor_payouts with
\* the payouts and the dust payout of a
OriginalTotal(a) ==
    SumF([w \in DOMAIN a.payouts |-> a.payouts[w].payout_amount], DOMAIN a.payouts)
        + a.dust_payout

\* u64 amounts: small ones, around a threshold of 1000, around half of the
\* range and at its end
MathAmounts ==
    {0, 1, 2, 3, 7, 50, 100, 999, 1000,
     U64_MAX \div 2 - 1, U64_MAX \div 2, U64_MAX - 1, U64_MAX}

\* u16 basis points, one of them above MAX_BASIS_POINTS
MathShares == {0, 1, 2500, 5000, MAX_BASIS_POINTS - 1, MAX_BASIS_POINTS, MAX_BASIS_POINTS + 1}

\* u128 weights, up to and beyond WEIGHT_PRECISION
MathWeights ==
    {0, 1, WEIGHT_PRECISION \div 10, WEIGHT_PRECISION \div 2, WEIGHT_PRECISION - 1,
     WEIGHT_PRECISION, WEIGHT_PRECISION + 1000, 2 * WEIGHT_PRECISION}

MathMinPayouts == {1, 20, 1000}

\* the weights of the investors of a batch, none above WEIGHT_PRECISION
BatchWeights == {0, WEIGHT_PRECISION \div 10, WEIGHT_PRECISION \div 2, WEIGHT_PRECISION}

\* &[(locked_amount, weight)] with up to MaxInvestors investors
InvestorLists ==
    UNION {[1..n -> {<<LedgerAmount, w>> : w \in BatchWeights}] : n \in 0..MaxInvestors}

CarryOverDusts == {0, 1, U64_MAX \div 2 - 1, U64_MAX \div 2, U64_MAX}

DailyCaps == {None} \cup {Some(cap) : cap \in MathAmounts}

\* a call of function fn with arguments args, not applied yet
MathCall(fn, args) == [fn |-> fn, applied |-> FALSE, args |-> args]

MathInit ==
    /\ policy = CHOOSE pol \in Policies : ~IsSome(pol.daily_cap_lamports)
    /\ progress = initialize
    /\ last = [LastOf([t |-> NoTrace], 0) EXCEPT !.op = "initialize"]
    /\ day = NoDay
    /\ new_days = <<>>
    /\ crank = NoCrank
    /\ math \in {MathCall("calculate_distribution", a) :
               a \in [claimed_quote : MathAmounts, locked_total : MathAmounts,
                      y0_total : MathAmounts, investor_fee_share_bps : MathShares]}
           \cup {MathCall("calculate_investor_weight", a) :
               a \in [investor_locked : MathAmounts, total_locked : MathAmounts]}
           \cup {MathCall("calculate_individual_payout", a) :
               a \in [total_investor_amount : MathAmounts, investor_weight : MathWeights,
                      min_payout : MathMinPayouts]}
           \cup {MathCall("calculate_batch_payout", a) :
               a \in [investors : InvestorLists, total_investor_amount : MathAmounts,
                      min_payout : MathMinPayouts, carry_over_dust : CarryOverDusts]}
           \cup {MathCall("enforce_daily_cap", a) :
               a \in [progress : {[initialize EXCEPT !.current_day_distributed = d] :
                                      d \in MathAmounts},
                      additional_amount : MathAmounts, daily_cap : DailyCaps]}
           \cup {MathCall("calculate_dust_payout", a) :
               a \in [accumulated_dust : MathAmounts, min_payout : MathMinPayouts]}
           \cup {MathCall("validate_quote_only_fees", a) :
               a \in [fee_data : [fee_owed_a : MathAmounts, fee_owed_b : MathAmounts,
                                  quote_side : {"a", "b", "none"}, cpi_ok : {TRUE}]]}
           \cup {MathCall("validate_claimed_fees_quote_only", a) :
               a \in [claimed_quote_amount : MathAmounts,
                      claimed_base_amount : MathAmounts]}
           \cup {MathCall("execute_investor_payouts", a) :
               a \in {a \in [payouts : [1..MaxInvestors ->
                                           [payout_amount : {0, 40, 50, 100},
                                            needs_ata_creation : BOOLEAN]],
                              min_payout : {40},
                              dust_payout : {0, 40},
                              capped_total : {1, 30, 60, 90, 140, 240}] :
                          a.capped_total <= OriginalTotal(a)}}

\* the call returns res
Apply(fn, res) ==
    /\ math.fn = fn
    /\ ~math.applied
    /\ math' = [fn |-> fn, applied |-> TRUE, args |-> math.args, res |-> res]
    /\ UNCHANGED <<policy, progress, last, day, new_days, crank>>

CalculateDistribution ==
    /\ math.fn = "calculate_distribution"
    /\ Apply("calculate_distribution",
             calculate_distribution(math.args.claimed_quote, math.args.locked_total,
                                    math.args.y0_total, math.args.investor_fee_share_bps))

CalculateInvestorWeight ==
    /\ math.fn = "calculate_investor_weight"
    /\ Apply("calculate_investor_weight",
             calculate_investor_weight(math.args.investor_locked, math.args.total_locked))

CalculateIndividualPayout ==
    /\ math.fn = "calculate_individual_payout"
    /\ Apply("calculate_individual_payout",
             calculate_individual_payout(math.args.total_investor_amount,
                                         math.args.investor_weight, math.args.min_payout))

CalculateBatchPayout ==
    /\ math.fn = "calculate_batch_payout"
    /\ Apply("calculate_batch_payout",
             calculate_batch_payout(math.args.investors, math.args.total_investor_amount,
                                    math.args.min_payout, math.args.carry_over_dust))

EnforceDailyCap ==
    /\ math.fn = "enforce_daily_cap"
    /\ Apply("enforce_daily_cap",
             enforce_daily_cap(math.args.progress, math.args.additional_amount,
                               math.args.daily_cap))

CalculateDustPayout ==
    /\ math.fn = "calculate_dust_payout"
    /\ Apply("calculate_dust_payout",
             calculate_dust_payout(math.args.accumulated_dust, math.args.min_payout))

ValidateQuoteOnlyFees ==
    /\ math.fn = "validate_quote_only_fees"
    /\ Apply("validate_quote_only_fees", validate_quote_only_fees(math.args.fee_data))

ValidateClaimedFeesQuoteOnly ==
    /\ math.fn = "validate_claimed_fees_quote_only"
    /\ Apply("validate_claimed_fees_quote_only",
             validate_claimed_fees_quote_only(math.args.claimed_quote_amount,
                                              math.args.claimed_base_amount))

ExecuteInvestorPayouts ==
    /\ math.fn = "execute_investor_payouts"
    /\ Apply("execute_investor_payouts",
             execute_investor_payouts(math.args.payouts, math.args.capped_total,
                                      OriginalTotal(math.args), math.args.dust_payout))

MathNext ==
    \/ CalculateDistribution
    \/ CalculateInvestorWeight
    \/ CalculateIndividualPayout
    \/ CalculateBatchPayout
    \/ EnforceDailyCap
    \/ CalculateDustPayout
    \/ ValidateQuoteOnlyFees
    \/ ValidateClaimedFeesQuoteOnly
    \/ ExecuteInvestorPayouts

MathSpec == MathInit /\ [][MathNext]_vars

\* the call of fn has returned
Applied(fn) == math.fn = fn /\ math.applied

\* ---------------------------------------------------------------------------
\* Properties of the distribute_fees instruction
\* ---------------------------------------------------------------------------

\* C1: any two invocations that start a new distribution day (prepare returned
\* NewDay and the invocation went through) have timestamps at least 86,400
\* seconds apart.
C1_NewDaysApart ==
    \A i, j \in DOMAIN new_days :
        i < j => new_days[j] - new_days[i] >= TWENTY_FOUR_HOURS

C1_TwoDaysStarted == Len(new_days) >= 2

\* C2: at day close, what the investors were paid during the day (as the ledger
\* records it) plus the change of carry_over_dust over the day equals the
\* investor amount split() computed for the day's claimed amount.
C2_DayConserved ==
    progress.day_complete =>
        progress.current_day_distributed + progress.carry_over_dust - day.start_dust
            = day.investor_amount

\* C3: in every day, the investor transfers (both as executed and as recorded in
\* current_day_distributed) plus the creator transfer plus the dust still
\* carried never exceed the day's claimed amount plus the dust carried into
\* the day: nothing is emitted twice, nor emitted and kept as dust.
C3_NoDuplication ==
    /\ day.transferred + day.creator + progress.carry_over_dust
           <= day.claimed + day.start_dust
    /\ progress.current_day_distributed + day.creator + progress.carry_over_dust
           <= day.claimed + day.start_dust

C3_PaidAndCarried ==
    /\ day.transferred > 0
    /\ day.creator > 0
    /\ progress.carry_over_dust > 0
    /\ progress.day_complete

\* the persisted ledger says a day is open that current_timestamp continues
ContinuesOpenDay(p, current_timestamp) ==
    /\ p.last_distribution_ts # 0
    /\ current_timestamp >= p.last_distribution_ts
    /\ current_timestamp - p.last_distribution_ts < TWENTY_FOUR_HOURS
    /\ ~p.day_complete

ValidPageSize(params) == params.page_size > 0 /\ params.page_size <= MAX_PAGE_SIZE

NoTransfer(r) == r.t.transferred = 0 /\ r.t.creator_payout = 0

\* the requested start indices that are not the persisted cursor
OffCursor(p) ==
    {cp \in CursorPositions : CursorRelation(p, cp) \in {"below", "above"}}

\* C4 (as stated): an invocation that requests a start index below the persisted
\* cursor returns success with no ledger change and no transfer; one that
\* requests an index above the persisted cursor is rejected with an
\* invalid-cursor error and no ledger change.
C4_AsStated ==
    \A c \in Calls(policy, progress, OffCursor(progress)) :
        LET requested == CursorRelation(progress, c.params.cursor_position) IN
        /\ requested = "below" =>
               c.r.ok /\ Commit(progress, c.r) = progress /\ NoTransfer(c.r)
        /\ requested = "above" =>
               /\ ~c.r.ok /\ c.r.err = "InvalidPaginationCursor"
               /\ Commit(progress, c.r) = progress

\* C4 (amended): with a valid page size and a timestamp that continues the open
\* day, an invocation that requests a start index below the persisted cursor
\* returns success with no ledger change and no transfer.  An invocation that
\* requests an index above the persisted cursor is always rejected with no
\* ledger change and no transfer; the error is the invalid-cursor error
\* whenever the page size is valid and prepare succeeds.
C4_RetryAndSkipAhead ==
    \A c \in Calls(policy, progress, OffCursor(progress)) :
        LET requested == CursorRelation(progress, c.params.cursor_position) IN
        /\ (/\ requested = "below"
            /\ ValidPageSize(c.params)
            /\ ContinuesOpenDay(progress, c.current_timestamp)) =>
               c.r.ok /\ c.r.p = progress /\ NoTransfer(c.r)
        /\ requested = "above" =>
               ~c.r.ok /\ Commit(progress, c.r) = progress /\ NoTransfer(c.r)
        /\ (/\ requested = "above"
            /\ ValidPageSize(c.params)
            /\ prepare_for_distribution(progress, c.current_timestamp).ok) =>
               c.r.err = "InvalidPaginationCursor"

C4_RetryReturned ==
    /\ progress.pagination_cursor > 0
    /\ progress.carry_over_dust > 0
    /\ ~progress.day_complete
    /\ \E c \in Calls(policy, progress, OffCursor(progress)) :
           /\ CursorRelation(progress, c.params.cursor_position) = "below"
           /\ c.r.ok /\ c.r.t.retry
    /\ \E c \in Calls(policy, progress, OffCursor(progress)) :
           /\ CursorRelation(progress, c.params.cursor_position) = "above"
           /\ c.r.err = "InvalidPaginationCursor"

C7_AsStated ==
    [][progress'.pagination_cursor < progress.pagination_cursor =>
           last'.timing = "NewDay" /\ progress'.pagination_cursor = 0]_vars

\* C7 (amended): across any sequence of ledger operations the cursor is lowered
\* only by the reset to 0 of a new day (start_new_day, directly or through
\* prepare), by reset_cursor_to, by reset_for_continuation, and by
\* mark_page_processed when page_start + page_size exceeds the u32 range in a
\* build without overflow checks; no other operation lowers it.
C7_CursorLoweredOnlyBy ==
    [][progress'.pagination_cursor < progress.pagination_cursor =>
           \/ last'.timing = "NewDay" /\ progress'.pagination_cursor = 0
           \/ last'.op \in {"reset_cursor_to", "reset_for_continuation"}
           \/ /\ last'.op = "mark_page_processed"
              /\ progress.pagination_cursor + MAX_PAGE_SIZE > U32_MAX]_vars

C7_CursorPutBack ==
    /\ last.op = "reset_cursor_to"
    /\ progress.pagination_cursor = MAX_PAGE_SIZE
    /\ progress.last_distribution_ts # 0
    /\ ~progress.day_complete

\* C8: when the policy sets a daily cap, current_day_distributed never exceeds
\* it.
C8_CapRespected ==
    IsSome(policy.daily_cap_lamports) =>
        progress.current_day_distributed <= Unwrap(policy.daily_cap_lamports)

C8_CapReached ==
    /\ IsSome(policy.daily_cap_lamports)
    /\ progress.current_day_distributed = Unwrap(policy.daily_cap_lamports)
    /\ day.investor_amount > Unwrap(policy.daily_cap_lamports)

\* C9: day_complete goes from false to true only in an invocation that ran the
\* settlement, and the settlement runs only once the cursor has reached the
\* number of investors passed to the invocation.
C9_OnlySettlementCloses ==
    [][(~progress.day_complete /\ progress'.day_complete) =>
           /\ last'.settled
           /\ progress'.pagination_cursor >= last'.total_investors]_vars

C9_DayClosed ==
    /\ progress.day_complete
    /\ last.settled
    /\ last.total_investors = MaxStreams

\* C10: the amount the settlement pays the creator equals the creator amount
\* split() computes for the day's claimed amount.
C10_CreatorGetsDaySplit ==
    last.settled =>
        last.creator_payout =
            calculate_distribution(day.claimed, last.total_locked,
                                   policy.y0_total_allocation,
                                   policy.investor_fee_share_bps).creator

\* C11: every invocation that processes a page, the one that starts the day and
\* each one that continues it, computes the page's payouts from the investor
\* amount split() gives for the amount claimed at the start of that day and
\* the total locked over all stream accounts passed.
C11_PageUsesDayClaim ==
    \A c \in Calls(policy, progress, CursorPositions) :
        (c.r.ok /\ c.r.t.paged) =>
            c.r.t.investor_amount =
                calculate_distribution(IF c.r.t.timing = "NewDay" THEN c.r.t.claimed_quote
                                       ELSE day.claimed,
                                       calculate_total_locked(c.streamflow_accounts),
                                       policy.y0_total_allocation,
                                       policy.investor_fee_share_bps).investor

FundingErrors == {"InsufficientFunds", "DailyCapExceeded"}

CapExhausted(pol, p) ==
    /\ IsSome(pol.daily_cap_lamports)
    /\ saturating_sub(Unwrap(pol.daily_cap_lamports), p.current_day_distributed) = 0

NewDayReset(p, now) ==
    [p EXCEPT !.last_distribution_ts = now,
              !.current_day_distributed = 0,
              !.pagination_cursor = 0,
              !.day_complete = FALSE]

\* the timestamps less than 24h after the start of the ledger's day
SameDayTimes(p) ==
    {now \in Times : /\ now - p.last_distribution_ts >= 0
                      /\ now - p.last_distribution_ts < TWENTY_FOUR_HOURS}

\* C13: on a ledger that has never run, prepare(now) succeeds with NewDay for
\* every non-negative timestamp now, and leaves last_distribution_ts = now,
\* current_day_distributed = 0, cursor = 0 and day_complete = false.
C13_FirstPrepareStartsDay ==
    progress.last_distribution_ts = 0 =>
        \A now \in Times :
            LET res == prepare_for_distribution(progress, now)
            IN  /\ res.ok
                /\ res.state = "NewDay"
                /\ res.p = NewDayReset(progress, now)

\* C14: on a ledger that has run, prepare(now) returns NewDay and performs the
\* reset exactly when at least 86,400 seconds have passed since
\* last_distribution_ts, whether or not the day was completed; before that
\* (at 86,399 seconds) it starts no day and resets nothing.
C14_NewDayIffElapsed ==
    progress.last_distribution_ts # 0 =>
        \A now \in Times :
            LET res == prepare_for_distribution(progress, now)
                elapsed == now - progress.last_distribution_ts
            IN  /\ (res.ok /\ res.state = "NewDay") <=> elapsed >= TWENTY_FOUR_HOURS
                /\ elapsed >= TWENTY_FOUR_HOURS => res.p = NewDayReset(progress, now)
                /\ elapsed < TWENTY_FOUR_HOURS => Returned(progress, res) = progress

C14_AtTheBoundary ==
    /\ progress.last_distribution_ts # 0
    /\ progress.day_complete
    /\ progress.pagination_cursor > 0
    /\ progress.current_day_distributed > 0
    /\ \E now \in Times : now - progress.last_distribution_ts = TWENTY_FOUR_HOURS - 1
    /\ \E now \in Times : now - progress.last_distribution_ts = TWENTY_FOUR_HOURS

\* C15: on a ledger that has run, when less than 24h have passed since
\* last_distribution_ts and the day is not complete, prepare(now) returns
\* ContinueSameDay and changes no ledger field.
C15_ContinueLeavesLedger ==
    (progress.last_distribution_ts # 0 /\ ~progress.day_complete) =>
        \A now \in SameDayTimes(progress) :
            LET res == prepare_for_distribution(progress, now)
            IN  /\ res.ok
                /\ res.state = "ContinueSameDay"
                /\ res.p = progress

C15_DayOpen ==
    /\ progress.last_distribution_ts # 0
    /\ ~progress.day_complete
    /\ progress.pagination_cursor > 0
    /\ progress.current_day_distributed > 0
    /\ progress.carry_over_dust > 0
    /\ Cardinality(SameDayTimes(progress)) >= 2

\* C16: on a ledger that has run, when less than 24h have passed since
\* last_distribution_ts and the day is complete, prepare(now) fails with
\* DayAlreadyComplete and changes no ledger field.
C16_CompleteDayRejected ==
    (progress.last_distribution_ts # 0 /\ progress.day_complete) =>
        \A now \in SameDayTimes(progress) :
            LET res == prepare_for_distribution(progress, now)
            IN  /\ ~res.ok
                /\ res.err = "DayAlreadyComplete"
                /\ Returned(progress, res) = progress

C16_DayClosedSameDay ==
    /\ progress.last_distribution_ts # 0
    /\ progress.day_complete
    /\ progress.carry_over_dust > 0
    /\ Cardinality(SameDayTimes(progress)) >= 2

\* C18: mark_page_processed(page_start, page_size) succeeds exactly when
\* page_start is the current cursor, and then sets the cursor to
\* page_start + page_size, so that successive pages are contiguous and in
\* increasing order.
C18_MarkPageInOrder ==
    \A page_start \in LedgerCursors, overflow_checks \in BOOLEAN :
        LET res == mark_page_processed(progress, page_start, MAX_PAGE_SIZE, overflow_checks)
        IN  /\ res.ok <=> page_start = progress.pagination_cursor
            /\ res.ok => /\ res.p.pagination_cursor = page_start + MAX_PAGE_SIZE
                         /\ res.p.pagination_cursor > progress.pagination_cursor

\* every value of the u32 argument
RequestedCursors == 0..U32_MAX

\* C19: for every cursor value and every requested index,
\* validate_cursor_for_retry returns true when the index is below the cursor,
\* false when it is the cursor, and fails with InvalidPaginationCursor when it
\* is above; it only reads the ledger (its result carries no ledger to
\* write back) in all three cases.
C19_RetryTrichotomy ==
    \A requested_cursor \in RequestedCursors :
        LET res == validate_cursor_for_retry(progress, requested_cursor)
        IN  /\ requested_cursor < progress.pagination_cursor => res.ok /\ res.is_retry
            /\ requested_cursor = progress.pagination_cursor => res.ok /\ ~res.is_retry
            /\ requested_cursor > progress.pagination_cursor =>
                   ~res.ok /\ res.err = "InvalidPaginationCursor"
            /\ "p" \notin DOMAIN res

C19_CursorInside ==
    /\ progress.pagination_cursor = MAX_PAGE_SIZE
    /\ progress.last_distribution_ts # 0
    /\ progress.current_day_distributed > 0
    /\ progress.day_complete

\* C20: every cumulative update of the ledger (advance_cursor,
\* mark_page_processed, add_distributed, add_dust) whose result would exceed
\* the field's maximum fails with ArithmeticOverflow and stores nothing, and
\* no update stores a value smaller than the one it started from.
C20_CheckedUpdates ==
    /\ \A amount \in LedgerAmounts :
           LET added == add_distributed(progress, amount)
               dusted == add_dust(progress, amount)
           IN  /\ progress.current_day_distributed + amount > U64_MAX =>
                      ~added.ok /\ added.err = "ArithmeticOverflow"
               /\ added.ok => added.p.current_day_distributed
                                  = progress.current_day_distributed + amount
               /\ progress.carry_over_dust + amount > U64_MAX =>
                      ~dusted.ok /\ dusted.err = "ArithmeticOverflow"
               /\ dusted.ok => dusted.p.carry_over_dust = progress.carry_over_dust + amount
    /\ LET advanced == advance_cursor(progress, MAX_PAGE_SIZE)
       IN  /\ progress.pagination_cursor + MAX_PAGE_SIZE > U32_MAX =>
                  ~advanced.ok /\ advanced.err = "ArithmeticOverflow"
           /\ advanced.ok => advanced.p.pagination_cursor
                                 = progress.pagination_cursor + MAX_PAGE_SIZE
    /\ \A overflow_checks \in BOOLEAN :
           LET marked == mark_page_processed(progress, progress.pagination_cursor,
                                             MAX_PAGE_SIZE, overflow_checks)
           IN  /\ progress.pagination_cursor + MAX_PAGE_SIZE > U32_MAX =>
                      ~marked.ok /\ marked.err = "ArithmeticOverflow"
               /\ marked.ok => marked.p.pagination_cursor
                                   = progress.pagination_cursor + MAX_PAGE_SIZE

\* the four cursor operations that can fail with InvalidPaginationCursor,
\* applied to ledger p with argument cursor
CursorOperations(p, cursor, overflow_checks) ==
    <<mark_page_processed(p, cursor, MAX_PAGE_SIZE, overflow_checks),
      validate_cursor_for_retry(p, cursor),
      reset_cursor_to(p, cursor),
      update_cursor(p, cursor)>>

\* C21: a cursor operation that fails with InvalidPaginationCursor leaves every
\* field of the ledger as it was, and each misuse fails: mark_page_processed
\* with a start that is not the cursor, validate_cursor_for_retry and
\* reset_cursor_to with a position above the cursor, update_cursor with a
\* smaller value.
C21_CursorErrorKeepsLedger ==
    \A cursor \in RequestedCursors, overflow_checks \in BOOLEAN :
        LET ops == CursorOperations(progress, cursor, overflow_checks)
        IN  /\ \A i \in DOMAIN ops :
                   ~ops[i].ok /\ ops[i].err = "InvalidPaginationCursor" =>
                       /\ "p" \notin DOMAIN ops[i]
                       /\ Returned(progress, ops[i]) = progress
            /\ cursor # progress.pagination_cursor => ~ops[1].ok
            /\ cursor > progress.pagination_cursor => ~ops[2].ok /\ ~ops[3].ok
            /\ cursor < progress.pagination_cursor => ~ops[4].ok

C21_CursorMisused ==
    /\ progress.pagination_cursor = MAX_PAGE_SIZE
    /\ progress.current_day_distributed > 0
    /\ progress.carry_over_dust > 0
    /\ \A i \in 1..3 :
           CursorOperations(progress, U32_MAX, FALSE)[i].err = "InvalidPaginationCursor"
    /\ CursorOperations(progress, 0, FALSE)[4].err = "InvalidPaginationCursor"

\* ---------------------------------------------------------------------------
\* Properties of the functions of utils/math.rs
\* ---------------------------------------------------------------------------

\* C22: for every claimed amount, locked total and total allocation and every
\* share of at most 10000 basis points, calculate_distribution returns an
\* investor amount and a creator amount that add up to the claimed amount, each
\* of them at most the claimed amount.
C22_SplitConserves ==
    Applied("calculate_distribution")
        /\ math.args.investor_fee_share_bps <= MAX_BASIS_POINTS =>
            /\ math.res.ok
            /\ math.res.investor + math.res.creator = math.args.claimed_quote
            /\ math.res.investor \in 0..math.args.claimed_quote
            /\ math.res.creator \in 0..math.args.claimed_quote

C22_BothPaid ==
    /\ Applied("calculate_distribution")
    /\ math.res.ok
    /\ math.args.locked_total < math.args.y0_total
    /\ math.args.claimed_quote = U64_MAX
    /\ math.res.investor > 0
    /\ math.res.creator > math.res.investor

\* the locked fraction of the allocation in basis points
LockedFractionBps(locked_total, y0_total) == (locked_total * MAX_BASIS_POINTS) \div y0_total

\* C23: with the claimed amount, the allocation and the share fixed, a larger
\* locked total never gives the investors less nor the creator more, and once
\* the locked fraction floor(locked_total * 10000 / y0_total) reaches the
\* share the investor amount is floor(claimed * share / 10000).
C23_MonotoneInLocked ==
    Applied("calculate_distribution")
        /\ math.args.investor_fee_share_bps <= MAX_BASIS_POINTS =>
            /\ \A more \in MathAmounts \cup {Min(math.args.locked_total + 1, U64_MAX)} :
                   more >= math.args.locked_total =>
                       LET larger == calculate_distribution(math.args.claimed_quote, more,
                                                            math.args.y0_total,
                                                            math.args.investor_fee_share_bps)
                       IN  /\ larger.investor >= math.res.investor
                           /\ larger.creator <= math.res.creator
            /\ math.args.y0_total > 0
                   /\ LockedFractionBps(math.args.locked_total, math.args.y0_total)
                          >= math.args.investor_fee_share_bps =>
                   math.res.investor
                       = (math.args.claimed_quote * math.args.investor_fee_share_bps)
                             \div MAX_BASIS_POINTS

C23_ShareJustReached ==
    /\ Applied("calculate_distribution")
    /\ math.args.y0_total > 0
    /\ math.args.investor_fee_share_bps \in 1..(MAX_BASIS_POINTS - 1)
    /\ LockedFractionBps(math.args.locked_total, math.args.y0_total)
           = math.args.investor_fee_share_bps
    /\ math.res.investor > 0
    /\ \E less \in MathAmounts :
           /\ less < math.args.locked_total
           /\ calculate_distribution(math.args.claimed_quote, less, math.args.y0_total,
                                     math.args.investor_fee_share_bps).investor
                  \in 1..(math.res.investor - 1)

\* C24: for every investor amount not above the total locked amount,
\* calculate_investor_weight returns a weight between 0 and WEIGHT_PRECISION,
\* and it returns 0 when the total locked amount is 0.
C24_WeightBounded ==
    Applied("calculate_investor_weight") =>
        /\ math.args.total_locked = 0 => math.res = 0
        /\ math.args.investor_locked <= math.args.total_locked =>
               math.res \in 0..WEIGHT_PRECISION

C24_WholeWeight ==
    /\ Applied("calculate_investor_weight")
    /\ math.args.investor_locked = U64_MAX
    /\ math.args.total_locked = U64_MAX
    /\ math.res = WEIGHT_PRECISION

\* C25: for every total investor amount, weight and threshold,
\* calculate_individual_payout returns (0, raw) when
\* raw = floor(total_investor_amount * weight / WEIGHT_PRECISION) is below the
\* threshold and (raw, 0) otherwise.
C25_PayoutAsStated ==
    Applied("calculate_individual_payout") =>
        /\ math.res.ok
        /\ LET raw == (math.args.total_investor_amount * math.args.investor_weight)
                          \div WEIGHT_PRECISION
           IN  /\ raw < math.args.min_payout =>
                      math.res.payout = 0 /\ math.res.dust = raw
               /\ raw >= math.args.min_payout =>
                      math.res.payout = raw /\ math.res.dust = 0

\* C26: for every list of investors, total investor amount, threshold and
\* carried dust, calculate_batch_payout returns (total_paid, total_dust) with
\* total_paid + (total_dust - carry_over_dust) = total_investor_amount.
C26_BatchConserves ==
    Applied("calculate_batch_payout") =>
        /\ math.res.ok
        /\ math.res.total_paid + (math.res.total_dust - math.args.carry_over_dust)
               = math.args.total_investor_amount

\* C27: for every carried dust and total investor amount of the u64 range and
\* every list of investors with weights of at most WEIGHT_PRECISION,
\* calculate_batch_payout returns a result, which is (0, total_investor_amount)
\* when the carried dust is at or above half of the u64 range.
C27_BatchNeverOverflows ==
    Applied("calculate_batch_payout")
        /\ (\A i \in DOMAIN math.args.investors :
                math.args.investors[i][2] <= WEIGHT_PRECISION) =>
            /\ math.res.ok
            /\ math.args.carry_over_dust >= U64_MAX \div 2 =>
                   /\ math.res.total_paid = 0
                   /\ math.res.total_dust = math.args.total_investor_amount

\* C28: whenever calculate_batch_payout returns (total_paid, total_dust), the
\* total dust is at least the carried dust passed in and
\* total_paid + total_dust fits in a u64.
C28_BatchKeepsCarry ==
    Applied("calculate_batch_payout") /\ math.res.ok =>
        /\ math.res.total_dust >= math.args.carry_over_dust
        /\ math.res.total_paid + math.res.total_dust <= U64_MAX

\* C29: for every accumulated amount and every threshold above 0,
\* calculate_dust_payout returns pay = floor(accumulated / threshold) * threshold
\* and remaining = accumulated - pay: they add up to the accumulated amount,
\* pay is a multiple of the threshold and remaining is below the threshold.
C29_DustFlush ==
    Applied("calculate_dust_payout") /\ math.args.min_payout > 0 =>
        /\ math.res.payout
               = (math.args.accumulated_dust \div math.args.min_payout) * math.args.min_payout
        /\ math.res.remaining = math.args.accumulated_dust - math.res.payout
        /\ math.res.payout + math.res.remaining = math.args.accumulated_dust
        /\ math.res.payout % math.args.min_payout = 0
        /\ math.res.remaining \in 0..(math.args.min_payout - 1)

C29_PaidWithRest ==
    /\ Applied("calculate_dust_payout")
    /\ math.res.payout >= 2 * math.args.min_payout
    /\ math.args.min_payout > 1
    /\ math.res.remaining > 0

\* C30: enforce_daily_cap returns the requested amount when no cap is set; with
\* a cap it fails with DailyCapExceeded when current_day_distributed is at or
\* over the cap and returns min(requested, cap - current_day_distributed)
\* otherwise; it reads the ledger only (its result carries no ledger to write
\* back).
C30_CapAllowance ==
    Applied("enforce_daily_cap") =>
        LET current_distributed == math.args.progress.current_day_distributed
            requested == math.args.additional_amount
            daily_cap == math.args.daily_cap
        IN  /\ ~IsSome(daily_cap) => math.res.ok /\ math.res.allowed = requested
            /\ IsSome(daily_cap) /\ current_distributed >= Unwrap(daily_cap) =>
                   ~math.res.ok /\ math.res.err = "DailyCapExceeded"
            /\ IsSome(daily_cap) /\ current_distributed < Unwrap(daily_cap) =>
                   /\ math.res.ok
                   /\ math.res.allowed
                          = Min(requested, Unwrap(daily_cap) - current_distributed)
            /\ "p" \notin DOMAIN math.res

C30_Clipped ==
    /\ Applied("enforce_daily_cap")
    /\ IsSome(math.args.daily_cap)
    /\ math.args.progress.current_day_distributed > 0
    /\ math.res.ok
    /\ math.res.allowed \in 1..(math.args.additional_amount - 1)

\* ---------------------------------------------------------------------------
\* Properties of the quote-only guard and of the policy
\* ---------------------------------------------------------------------------
\* the (claimed_quote, claimed_base) pair a guard call is about
GuardAmounts ==
    IF math.fn = "validate_claimed_fees_quote_only"
    THEN [quote |-> math.args.claimed_quote_amount, base |-> math.args.claimed_base_amount]
    ELSE IF math.args.fee_data.quote_side = "a"
         THEN [quote |-> math.args.fee_data.fee_owed_a, base |-> math.args.fee_data.fee_owed_b]
         ELSE [quote |-> math.args.fee_data.fee_owed_b, base |-> math.args.fee_data.fee_owed_a]

\* a guard was called on a position that holds the quote mint
GuardApplied ==
    \/ Applied("validate_claimed_fees_quote_only")
    \/ Applied("validate_quote_only_fees") /\ math.args.fee_data.quote_side # "none"

\* C31: each quote-only guard fails with BaseFeeDetected whenever the claimed
\* base amount is above 0, whatever the claimed quote amount is, and passes
\* whenever the claimed base amount is 0, a claimed quote amount of 0 included.
C31_GuardAsStated ==
    GuardApplied =>
        /\ GuardAmounts.base > 0 => ~math.res.ok /\ math.res.err = "BaseFeeDetected"
        /\ GuardAmounts.base = 0 => math.res.ok

\* the validation errors the values of params call for
Violations(params) ==
    {code \in {"InvalidFeeShareBasisPoints", "InvalidMinPayoutThreshold",
               "InvalidTotalAllocation", "InvalidDailyCap"} :
        \/ code = "InvalidFeeShareBasisPoints" /\ params.investor_fee_share_bps > 10000
        \/ code = "InvalidMinPayoutThreshold" /\ params.min_payout_lamports = 0
        \/ code = "InvalidTotalAllocation" /\ params.y0_total_allocation = 0
        \/ code = "InvalidDailyCap" /\ params.daily_cap_lamports = Some(0)}

\* the policy record that holds the values of params
PolicyOf(params) ==
    [investor_fee_share_bps |-> params.investor_fee_share_bps,
     daily_cap_lamports |-> params.daily_cap_lamports,
     min_payout_lamports |-> params.min_payout_lamports,
     y0_total_allocation |-> params.y0_total_allocation]

\* C32: every stored policy has investor_share_bps <= 10000,
\* min_payout_threshold > 0, total_allocation > 0 and a daily cap that is unset
\* or > 0; a creation with a violating value fails with the validation error of
\* a violated bound and stores no policy, and a creation that succeeds stores
\* the values exactly as given.
C32_StoredPolicyValid ==
    /\ \A stored \in policy :
            /\ stored.investor_fee_share_bps <= 10000
            /\ stored.min_payout_lamports > 0
            /\ stored.y0_total_allocation > 0
            /\ \A cap \in stored.daily_cap_lamports : cap > 0
    /\ policy = None =>
            \A params \in InitializeParams, accounts \in InitializeAccounts :
                LET r == initialize_honorary_position(params, accounts)
                    created == Created(policy, r, r.policy_config)
                IN  /\ Violations(params) # {} =>
                            ~r.ok /\ r.err \in Violations(params) /\ created = None
                    /\ r.ok => created = Some(PolicyOf(params))
                    /\ ~r.ok => created = None

\* a policy at the bounds was created: the whole share, the smallest cap,
\* the smallest threshold
C32_PolicyStored ==
    /\ last.op = "initialize_honorary_position"
    /\ \E stored \in policy :
            /\ stored.investor_fee_share_bps = MAX_BASIS_POINTS
            /\ stored.daily_cap_lamports = Some(1)
            /\ stored.min_payout_lamports = 1
            /\ stored.y0_total_allocation = 1

\* ---------------------------------------------------------------------------
\* Properties of pagination and of the closed day
\* ---------------------------------------------------------------------------
\* the invocation c is served at the ledger's cursor: timing and cursor checks
\* passed, it is no retry, and the fee claim of a new day succeeded
ServedAtCursor(p, c) ==
    /\ ReachesClaim(p, c.current_timestamp, c.params)
    /\ \/ prepare_for_distribution(p, c.current_timestamp).state # "NewDay"
       \/ claim_position_fees(c.fee_data).ok

\* the index the page of invocation c starts at
StartIndex(p, c) == prepare_for_distribution(p, c.current_timestamp).p.pagination_cursor

RejectedUnchanged(p, r) ==
    /\ ~r.ok
    /\ r.err = "InvalidPaginationCursor"
    /\ Commit(p, r) = p

\* C33 (as stated): a page request whose size is 0 or above 50, or whose
\* start index is not below the investor count, is rejected with
\* InvalidPaginationCursor and changes no ledger field.
C33_AsStated ==
    \A c \in Calls(policy, progress, CursorPositions) :
        \/ ~ValidPageSize(c.params)
        \/ /\ ServedAtCursor(progress, c)
           /\ ~(StartIndex(progress, c) < c.total_investors)
        => RejectedUnchanged(progress, c.r)

\* C33 (amended): a request whose size is 0 or above 50 is rejected with
\* InvalidPaginationCursor, so is a request that enters the page step with a
\* start index not below the investor count, and neither changes a ledger
\* field.
C33_PaginationRejected ==
    \A c \in Calls(policy, progress, CursorPositions) :
        \/ ~ValidPageSize(c.params)
        \/ /\ c.r.t.entered
           /\ ~(StartIndex(progress, c) < c.total_investors)
        => RejectedUnchanged(progress, c.r)

\* a day is open with its cursor past 0 and dust carried, and a request that
\* passes fewer stream accounts than the cursor enters the page step
C33_StartOutOfRange ==
    /\ progress.pagination_cursor > 0
    /\ ~progress.day_complete
    /\ \E c \in Calls(policy, progress, CursorPositions) :
           /\ ValidPageSize(c.params)
           /\ c.r.t.entered
           /\ c.r.t.timing = "ContinueSameDay"
           /\ c.total_investors > 0
           /\ ~(StartIndex(progress, c) < c.total_investors)
           /\ c.r.err = "InvalidPaginationCursor"

\* C34 (as stated): within one 24h window, when a caller that started the
\* day keeps invoking with the cursor as start index and no invocation fails,
\* the cursor reaches the investor count, the settlement runs and the day is
\* complete after finitely many invocations: as long as the day is open, the
\* caller's next invocation advances it (an invocation depends on the ledger
\* and its inputs only, so a day on which it changes nothing stays open).
C34_AsStated ==
    (crank.active /\ ~crank.failed) => (progress.day_complete \/ CrankPending)

\* the fields of a closed day
ClosedDay(p) == <<p.pagination_cursor, p.current_day_distributed, p.day_complete>>

\* the ledger's methods that assign a field, each applied to ledger p: the
\* method, the timestamp it was given, the ledger it leaves
LedgerOperations(p) ==
    {[op |-> "prepare_for_distribution", now |-> now,
      p |-> Returned(p, prepare_for_distribution(p, now))] : now \in Times}
    \cup {[op |-> "start_new_day", now |-> now,
           p |-> Returned(p, start_new_day(p, now))] : now \in Times}
    \cup {[op |-> "add_distributed", now |-> 0,
           p |-> Returned(p, add_distributed(p, amount))] : amount \in LedgerAmounts}
    \cup {[op |-> "update_cursor", now |-> 0,
           p |-> Returned(p, update_cursor(p, cursor))] : cursor \in LedgerCursors}
    \cup {[op |-> "reset_cursor_to", now |-> 0,
           p |-> Returned(p, reset_cursor_to(p, cursor))] : cursor \in LedgerCursors}
    \cup {[op |-> "advance_cursor", now |-> 0,
           p |-> Returned(p, advance_cursor(p, MAX_PAGE_SIZE))],
          [op |-> "mark_page_processed", now |-> 0,
           p |-> Returned(p, mark_page_processed(p, p.pagination_cursor, MAX_PAGE_SIZE,
                                                 TRUE))],
          [op |-> "complete_day", now |-> 0, p |-> complete_day(p)],
          [op |-> "reset_for_continuation", now |-> 0, p |-> reset_for_continuation(p)]}
    \cup {[op |-> "add_dust", now |-> 0,
           p |-> Returned(p, add_dust(p, amount))] : amount \in LedgerAmounts}
    \cup {[op |-> "consume_dust", now |-> 0,
           p |-> Returned(p, consume_dust(p, amount))] : amount \in LedgerAmounts}

\* C35 (as stated): once day_complete is true, no operation available on the
\* ledger changes the cursor, current_day_distributed or day_complete until a
\* prepare(now) with now - last_distribution_ts >= 24h starts the next day.
C35_AsStated ==
    progress.day_complete =>
        \A o \in LedgerOperations(progress) :
            \/ ClosedDay(o.p) = ClosedDay(progress)
            \/ /\ o.op = "prepare_for_distribution"
               /\ o.now - progress.last_distribution_ts >= TWENTY_FOUR_HOURS

\* C35 (amended): once day_complete is true, no invocation of distribute_fees
\* changes the cursor, current_day_distributed or day_complete, and none emits
\* a transfer, until an invocation with now - last_distribution_ts >= 24h
\* starts the next day; of the ledger's own methods, prepare, complete_day,
\* add_dust and consume_dust change none of the three fields until such a
\* prepare.
C35_ClosedDayStaysClosed ==
    progress.day_complete =>
        /\ \A c \in Calls(policy, progress, CursorPositions) :
               \/ /\ ClosedDay(Commit(progress, c.r)) = ClosedDay(progress)
                  /\ c.r.ok => NoTransfer(c.r)
               \/ /\ c.r.ok
                  /\ c.r.t.timing = "NewDay"
                  /\ c.current_timestamp - progress.last_distribution_ts
                         >= TWENTY_FOUR_HOURS
        /\ \A o \in LedgerOperations(progress) :
               o.op \in {"prepare_for_distribution", "complete_day", "add_dust",
                         "consume_dust"} =>
                   \/ ClosedDay(o.p) = ClosedDay(progress)
                   \/ /\ o.op = "prepare_for_distribution"
                      /\ o.now - progress.last_distribution_ts >= TWENTY_FOUR_HOURS

\* a day that distributed is closed, and is invoked both within its 24 hours
\* and after them
C35_ClosedDayInvoked ==
    /\ progress.day_complete
    /\ progress.current_day_distributed > 0
    /\ \E c \in Calls(policy, progress, CursorPositions) :
           /\ c.current_timestamp - progress.last_distribution_ts < TWENTY_FOUR_HOURS
           /\ c.r.err = "DayAlreadyComplete"
    /\ \E c \in Calls(policy, progress, CursorPositions) :
           /\ c.r.ok
           /\ c.r.t.timing = "NewDay"
           /\ c.r.p.pagination_cursor > 0

\* ---------------------------------------------------------------------------
\* Properties of the payouts of a day
\* ---------------------------------------------------------------------------
\* C36: for any interleaving of atomic invocations, with duplicate, missing or
\* out-of-order start indices, every investor index is processed by at most
\* one successful page operation between two consecutive NewDay transitions.
C36_IndexProcessedOnce ==
    \A i \in DOMAIN day.processed : day.processed[i] <= 1

\* two page operations of one day processed one index each, and an invocation
\* with a start index below the cursor was made that day
C36_TwoPagesAndRetry ==
    /\ day.pages = 2
    /\ day.retried
    /\ \A i \in 0..1 : day.processed[i] = 1

\* C37 (as stated): when the daily cap reduces a page's total, the amounts
\* emitted for the page, the scaled payouts plus the dust paid out, sum to at
\* most the capped amount the page adds to current_day_distributed.
C37_AsStated ==
    \A c \in Calls(policy, progress, CursorPositions) :
        (c.r.ok /\ c.r.t.paged /\ c.r.t.paid < c.r.t.original) =>
            /\ Commit(progress, c.r).current_day_distributed
                   = prepare_for_distribution(progress, c.current_timestamp)
                         .p.current_day_distributed + c.r.t.paid
            /\ c.r.t.transferred <= c.r.t.paid

C39_DustSurvivesRollover ==
    /\ \A now \in Times :
           Returned(progress, prepare_for_distribution(progress, now)).carry_over_dust
               = progress.carry_over_dust
    /\ \A c \in Calls(policy, progress, CursorPositions) :
           IF c.r.ok /\ c.r.t.paged
           THEN /\ c.r.t.dust_payout + c.r.t.remaining_dust
                       = progress.carry_over_dust + c.r.t.page_dust
                /\ Commit(progress, c.r).carry_over_dust = c.r.t.remaining_dust
           ELSE Commit(progress, c.r).carry_over_dust = progress.carry_over_dust

\* a closed day carries dust, and the first page of the next day pays out
\* dust that the page's own payouts did not leave
C39_CarriedDustPaid ==
    /\ progress.day_complete
    /\ progress.carry_over_dust > 0
    /\ \E c \in Calls(policy, progress, CursorPositions) :
           /\ c.r.ok
           /\ c.r.t.timing = "NewDay"
           /\ c.r.t.paged
           /\ c.r.t.dust_payout > c.r.t.page_dust

\* the timestamps before the start of the day the ledger recorded
StaleTimes(p) == {now \in Times : now < p.last_distribution_ts}

\* C40: on a ledger that has run, prepare(now) with now earlier than
\* last_distribution_ts fails with CooldownNotElapsed and leaves every field
\* of the ledger unchanged, whether the day is complete or not.
C40_StaleTimestampRejected ==
    progress.last_distribution_ts # 0 =>
        \A now \in StaleTimes(progress) :
            LET prep == prepare_for_distribution(progress, now)
            IN  /\ ~prep.ok
                /\ prep.err = "CooldownNotElapsed"
                /\ Returned(progress, prep) = progress

\* prepare started a day at the latest timestamp and the day was closed:
\* every earlier timestamp is stale
C40_StaleOnClosedDay ==
    /\ progress.last_distribution_ts = MaxDays * TWENTY_FOUR_HOURS
    /\ progress.day_complete
    /\ progress.pagination_cursor > 0
    /\ StaleTimes(progress) # {}
    /\ Len(new_days) > 0

====
